---- MODULE Spec2Model ----
(***************************************************************************)
(* A model of the image pipeline of qdrant_hackathon: the path allow-list  *)
(* (utils.validate_file_path, config.Config), the single-image pipeline    *)
(* (ImageProcessor.process_single_image), the vector-store adapter         *)
(* (QdrantManager) and the search router (ImageProcessor.search_images).   *)
(*                                                                         *)
(* Strings the code inspects character by character (paths, tags) are      *)
(* sequences of one-character strings.  The external collaborators (file   *)
(* system, geocoder, chat model, embedding model, Qdrant server) are the   *)
(* environment: each call to one of them draws its outcome with \E.        *)
(***************************************************************************)
EXTENDS Integers, Sequences, FiniteSets, TLC

VARIABLES
    ALLOWED_PATHS,        \* Config.ALLOWED_PATHS
    collections,          \* the Qdrant server: metric -> [exists, points]
    collections_created,  \* QdrantManager.collections_created
    uuid,                 \* number of uuid4() values drawn so far
    pc,                   \* position of process_single_image
    run,                  \* locals of the process_single_image call in progress
    trace,                \* stages the call in progress has invoked, in order
    ret,                  \* (result, error) of the last process_single_image
    written,              \* text the last call wrote into the image file
    calls,                \* number of handler calls made so far
    sarg,                 \* arguments of the last search_images call, and what
                          \* get_text_embedding returned if it was called
    sret,                 \* (result, error) of the last search_images call
    squeries,             \* store queries the last search_images call issued
    vpath,                \* argument of the last validate_file_path call
    vret,                 \* its return value
    uiret,                \* what the last perform_new_search returned and left on disk
    processor,            \* app.processor, the module-level global
    built,                \* number of ImageProcessor objects constructed
    handler,              \* thread -> position and locals of its handler
    bulk,                 \* locals and return of process_bulk_images
    tagarg,               \* model response and max_tags of generate_tags
    tagret,               \* (tags, error) generate_tags returned
    ccret,                \* (success, message) of the last create_collections
    rt,                   \* the last upsert_image / search_similar_images pair
    gps,                  \* the last get_gps_coordinates call: what the file held, the return
    idop,                 \* the last get_image_by_id / delete_image call and its return
    disk,                 \* the paths at which a file exists
    bypath,               \* the last get_image_by_path call: path, accesses, return
    apret                 \* the last set_allowed_paths_interface call: text, message

vars == <<ALLOWED_PATHS, collections, collections_created, uuid, pc, run, trace,
          ret, written, calls, sarg, sret, squeries, vpath, vret,
          uiret, processor, built, handler, bulk, tagarg, tagret, ccret, rt, gps,
          idop, disk, bypath, apret>>

\* the variables of the operations called on their own
More == <<gps, idop, disk, bypath, apret>>

\* the variables of the handlers around the pipeline
Aux == <<uiret, processor, built, handler, bulk, tagarg, tagret, ccret, rt, More>>

\* Python's None.  Every Python value of the model is a tuple, so that None
\* can be compared with any of them.
None == <<"None">>

\* a Python str the code only passes on (a message, a key, free text)
Text(s) == <<s>>

Range(f) == {f[i] : i \in DOMAIN f}

\* dict.get(key, default): the default is used only when the key is absent
Get(d, k, default) == IF k \in DOMAIN d THEN d[k] ELSE default

(***************************************************************************)
(* Character strings                                                       *)
(***************************************************************************)

\* str.lower() on the characters the model uses
LowerChar(c) ==
    CASE c = "J" -> "j"
      [] c = "P" -> "p"
      [] c = "G" -> "g"
      [] c = "S" -> "s"
      [] c = "N" -> "n"
      [] OTHER   -> c

Lower(s) == [i \in 1..Len(s) |-> LowerChar(s[i])]

\* str.startswith
StartsWith(s, prefix) ==
    /\ Len(prefix) <= Len(s)
    /\ \A i \in 1..Len(prefix) : s[i] = prefix[i]

\* str.endswith
EndsWith(s, suffix) ==
    /\ Len(suffix) <= Len(s)
    /\ \A i \in 1..Len(suffix) : s[Len(s) - Len(suffix) + i] = suffix[i]

\* the characters str.strip() removes
Whitespace == {" ", "\n", "\t"}

\* s.lstrip(chars)
RECURSIVE LStrip(_, _)
LStrip(s, chars) ==
    IF s # <<>> /\ Head(s) \in chars THEN LStrip(Tail(s), chars) ELSE s

\* s.rstrip(chars)
RECURSIVE RStrip(_, _)
RStrip(s, chars) ==
    IF s # <<>> /\ s[Len(s)] \in chars THEN RStrip(SubSeq(s, 1, Len(s) - 1), chars)
    ELSE s

\* s.strip(chars)
StripChars(s, chars) == RStrip(LStrip(s, chars), chars)

\* s.strip()
Strip(s) == StripChars(s, Whitespace)

\* s.split(sep) for a separator of one character: the pieces between the
\* separators, empty pieces included
RECURSIVE SplitFrom(_, _, _)
SplitFrom(s, sep, piece) ==
    IF s = <<>> THEN << piece >>
    ELSE IF Head(s) = sep THEN << piece >> \o SplitFrom(Tail(s), sep, <<>>)
    ELSE SplitFrom(Tail(s), sep, Append(piece, Head(s)))

Split(s, sep) == SplitFrom(s, sep, <<>>)

(***************************************************************************)
(* Paths.  A path string is [none, abs, segs]: `none` marks a caller       *)
(* passing None instead of a string, `abs` a leading "/", `segs` the       *)
(* components between the slashes.  SegChars spells each component.        *)
(***************************************************************************)

SegChars ==
    ("data"   :> <<"d","a","t","a">>) @@
    ("data2"  :> <<"d","a","t","a","2">>) @@
    ("etc"    :> <<"e","t","c">>) @@
    ("home"   :> <<"h","o","m","e">>) @@
    ("app"    :> <<"a","p","p">>) @@
    ("x"      :> <<"x">>) @@
    (".."     :> <<".",".">>) @@
    ("passwd" :> <<"p","a","s","s","w","d">>) @@
    ("y.jpg"  :> <<"y",".","j","p","g">>) @@
    ("p.PNG"  :> <<"p",".","P","N","G">>) @@
    ("g.gif"  :> <<"g",".","g","i","f">>) @@
    ("n.txt"  :> <<"n",".","t","x","t">>)

Str(isAbs, segs) == [none |-> FALSE, abs |-> isAbs, segs |-> segs]

NonePath == [none |-> TRUE, abs |-> FALSE, segs |-> <<>>]

\* the characters of a path string
RECURSIVE JoinSegs(_)
JoinSegs(segs) ==
    IF segs = <<>> THEN <<>>
    ELSE IF Len(segs) = 1 THEN SegChars[segs[1]]
    ELSE SegChars[segs[1]] \o <<"/">> \o JoinSegs(Tail(segs))

PathChars(p) == (IF p.abs THEN <<"/">> ELSE <<>>) \o JoinSegs(p.segs)

\* os.getcwd() and os.path.expanduser("~") of the running process
Cwd == <<"app">>

HomeDir == <<"home">>

\* os.path.normpath on the components of an absolute path: ".." drops the
\* component before it and is itself dropped at the root
RECURSIVE NormSegs(_, _)
NormSegs(done, rest) ==
    IF rest = <<>> THEN done
    ELSE IF Head(rest) = ".."
         THEN NormSegs(IF done = <<>> THEN <<>> ELSE SubSeq(done, 1, Len(done) - 1),
                       Tail(rest))
         ELSE NormSegs(Append(done, Head(rest)), Tail(rest))

\* os.path.abspath: a relative path is joined to the working directory, then
\* the result is normalised
abspath(p) == Str(TRUE, NormSegs(<<>>, (IF p.abs THEN <<>> ELSE Cwd) \o p.segs))

(***************************************************************************)
(* config.Config                                                           *)
(***************************************************************************)

SUPPORTED_EXTENSIONS ==
    << <<".","j","p","g">>, <<".","j","p","e","g">>, <<".","p","n","g">>,
       <<".","g","i","f">>, <<".","b","m","p">>, <<".","t","i","f","f">>,
       <<".","w","e","b","p">> >>

get_allowed_paths(allowedPaths) ==
    IF allowedPaths = <<>>
    THEN << Str(TRUE, HomeDir), Str(TRUE, Cwd) >>
    ELSE allowedPaths

get_distance_metrics == <<"cosine", "euclid", "dot", "manhattan">>

Metrics == {get_distance_metrics[i] : i \in 1..Len(get_distance_metrics)}

(***************************************************************************)
(* utils.validate_file_path                                                *)
(***************************************************************************)

validate_file_path(allowedPaths, filepath) ==
    \E i \in 1..Len(get_allowed_paths(allowedPaths)) :
        StartsWith(PathChars(abspath(filepath)),
                   PathChars(abspath(get_allowed_paths(allowedPaths)[i])))

\* is_image_file / the extension test of process_single_image
has_supported_extension(p) ==
    \E i \in 1..Len(SUPPORTED_EXTENSIONS) :
        EndsWith(Lower(PathChars(p)), SUPPORTED_EXTENSIONS[i])

(***************************************************************************)
(* utils._convert_to_degrees / utils.get_gps_coordinates                   *)
(* An EXIF rational is [num, den].  Degrees are kept as integers in units  *)
(* of 1/DegreeUnit degree, which is exact for the denominators 1 and 2.    *)
(***************************************************************************)

DegreeUnit == 2 * 3600

Ratio(n, d) == [num |-> n, den |-> d]

\* float(num) / float(den) if den != 0 else float(num), times `unit`
RatioTimes(r, unit) == IF r.den # 0 THEN (r.num * unit) \div r.den ELSE r.num * unit

\* a Python float holding n / DegreeUnit
Float(n) == <<"float", n>>

\* A conversion that reads the degrees and nothing else.
_convert_first_rational(value) ==
    IF Len(value) < 1 THEN None ELSE Float(RatioTimes(value[1], DegreeUnit))

_convert_to_degrees(value) ==
    IF Len(value) < 3 THEN None
    ELSE Float( RatioTimes(value[1], DegreeUnit)
            + RatioTimes(value[2], DegreeUnit \div 60)
            + RatioTimes(value[3], DegreeUnit \div 3600) )

\* exif is what exifread.process_file finds in the file:
\* [readable, lat, lat_ref, lon, lon_ref], a missing tag being None
get_gps_coordinates(exif) ==
    IF ~exif.readable THEN None
    ELSE IF exif.lat = None \/ exif.lat_ref = None
            \/ exif.lon = None \/ exif.lon_ref = None THEN None
    ELSE LET lat == _convert_to_degrees(exif.lat)
             lon == _convert_to_degrees(exif.lon)
         IN  IF lat = None \/ lon = None THEN None
             ELSE << IF exif.lat_ref[1] = "S" THEN -lat[2] ELSE lat[2],
                     IF exif.lon_ref[1] = "W" THEN -lon[2] ELSE lon[2] >>

(***************************************************************************)
(* The Qdrant server and qdrant_manager.QdrantManager                      *)
(* A vector is <<"vec", dim, dir>>: its length and, for a unit vector, the *)
(* multiple of 60 degrees it points at.  A point is [id, vector, payload]. *)
(***************************************************************************)

\* the size create_collections gives every collection
VectorSize == 512

Vec(dim, dir) == <<"vec", dim, dir>>

\* len(vector)
VecDim(v) == v[2]

VecDir(v) == v[3]

\* a Python list of floats that is empty
EmptyVec == Vec(0, 0)

\* A payload built with `image_data.get(key) or default`: a None becomes the
\* default.
create_payload_or_default(image_data) ==
    [ image_id        |-> Get(image_data, "image_id", <<>>),
      file_path       |-> Get(image_data, "file_path", <<>>),
      format          |-> Get(image_data, "format", <<>>),
      gps_coordinates |-> IF Get(image_data, "gps_coordinates", <<>>) = None
                          THEN <<>> ELSE Get(image_data, "gps_coordinates", <<>>),
      location_name   |-> IF Get(image_data, "location_name", <<>>) = None
                          THEN <<>> ELSE Get(image_data, "location_name", <<>>),
      ai_tags         |-> Get(image_data, "ai_tags", <<>>),
      ai_description  |-> Get(image_data, "ai_description", <<>>),
      embedding_dim   |-> Get(image_data, "embedding_dim", 0) ]

\* utils.create_payload (the fields no modelled operation reads are left out:
\* file_name, file_size, width, height, processing_timestamp, model_used,
\* processed_at, source_type)
create_payload(image_data) ==
    [ image_id        |-> Get(image_data, "image_id", <<>>),
      file_path       |-> Get(image_data, "file_path", <<>>),
      format          |-> Get(image_data, "format", <<>>),
      gps_coordinates |-> Get(image_data, "gps_coordinates", <<>>),
      location_name   |-> Get(image_data, "location_name", <<>>),
      ai_tags         |-> Get(image_data, "ai_tags", <<>>),
      ai_description  |-> Get(image_data, "ai_description", <<>>),
      embedding_dim   |-> Get(image_data, "embedding_dim", 0) ]

MetricIndex(m) == CHOOSE i \in 1..Len(get_distance_metrics) : get_distance_metrics[i] = m

\* a collection the server does not have
NoCollection == [exists |-> FALSE, points |-> {}, size |-> 0, distance |-> "none"]

NoCollections == [m \in Metrics |-> NoCollection]

\* lines 66-71 and 77: distance_map.get(distance, models.Distance.COSINE)
distance_map(distance) == IF distance \in Metrics THEN distance ELSE "cosine"

\* A server that does not compare the vector's length with the collection's.
ServerAcceptsAnyLength(colls, m, vector) == colls[m].exists

\* client.upsert on one collection: the server refuses a missing collection
\* and a vector whose length is not the collection's size
ServerAccepts(colls, m, vector) == colls[m].exists /\ VecDim(vector) = colls[m].size

\* the first collection, in distance_metrics order, whose client.upsert raises
\* when the connection drops at the failAt-th call (Len + 1: it never drops)
FirstFailure(colls, vector, failAt) ==
    LET bad == {i \in 1..Len(get_distance_metrics) :
                   i = failAt \/ ~ServerAccepts(colls, get_distance_metrics[i], vector)}
    IN  IF bad = {} THEN Len(get_distance_metrics) + 1
        ELSE CHOOSE i \in bad : \A j \in bad : i <= j

\* QdrantManager.upsert_image: [collections, success, error]
upsert_image(colls, image_data, embedding, point_id, failAt) ==
    LET stop  == FirstFailure(colls, embedding, failAt)
        point == [id |-> point_id, vector |-> embedding,
                  payload |-> create_payload(image_data)]
    IN  [ collections |->
              [m \in Metrics |->
                  IF MetricIndex(m) < stop
                  THEN [colls[m] EXCEPT !.points =
                           {p \in @ : p.id # point_id} \cup {point}]
                  ELSE colls[m]],
          success |-> stop > Len(get_distance_metrics),
          error   |-> IF stop > Len(get_distance_metrics) THEN None
                      ELSE Text("Failed to upsert image") ]

\* QdrantManager.create_collections: [collections, collections_created, success]
create_collections(colls, created, failAt) ==
    IF created THEN [collections |-> colls, collections_created |-> created,
                     success |-> TRUE]
    ELSE [ collections |->
               [m \in Metrics |->
                   IF MetricIndex(m) < failAt /\ ~colls[m].exists
                   THEN [exists |-> TRUE, points |-> {}, size |-> VectorSize,
                         distance |-> distance_map(m)]
                   ELSE colls[m]],
           collections_created |-> failAt > Len(get_distance_metrics),
           success |-> failAt > Len(get_distance_metrics) ]

(***************************************************************************)
(* utils.extract_and_add_metadata                                          *)
(***************************************************************************)

\* a Python dict (keys -> values) and a Python list, as arguments
PyDict(f) == [kind |-> "dict", val |-> f]

PyList(q) == [kind |-> "list", val |-> q]

\* set(tags): iterating a dict yields its keys, iterating a list its elements
PySet(v) == IF v.kind = "dict" THEN DOMAIN v.val ELSE Range(v.val)

NothingWritten == [field |-> "none", items |-> {}]

\* The text written is ", ".join(sorted(set(tags))); it is kept as the set of
\* the joined items.  fmt is img.format, outcome what the file system does:
\* "open_error" (Image.open raises), "write_error" (img.save raises), "ok".
\* Returns [written, write_success, error_msg].
extract_and_add_metadata(fmt, tags, outcome) ==
    LET tags_str == PySet(tags)
    IN  IF outcome = "open_error"
        THEN [written |-> NothingWritten, write_success |-> FALSE,
              error_msg |-> Text("Cannot identify image file")]
        ELSE IF fmt \in {"JPEG", "TIFF"}
        THEN IF outcome = "write_error"
             THEN [written |-> NothingWritten, write_success |-> FALSE,
                   error_msg |-> Text("Failed to write EXIF tags")]
             ELSE [written |-> [field |-> "UserComment", items |-> tags_str],
                   write_success |-> TRUE, error_msg |-> None]
        ELSE IF fmt = "PNG"
        THEN IF outcome = "write_error"
             THEN [written |-> NothingWritten, write_success |-> FALSE,
                   error_msg |-> Text("Error processing PNG metadata")]
             ELSE [written |-> [field |-> "Keywords", items |-> tags_str],
                   write_success |-> TRUE, error_msg |-> None]
        ELSE [written |-> NothingWritten, write_success |-> FALSE,
              error_msg |-> Text("Unsupported format for metadata writing.")]

(***************************************************************************)
(* The environment of process_single_image                                 *)
(***************************************************************************)

\* the calls a handler sequence makes
MaxCalls == 2

AllowedData == << Str(TRUE, <<"data">>) >>

PipelinePaths ==
    { Str(TRUE, <<"data", "x", "y.jpg">>), Str(TRUE, <<"data2", "p.PNG">>),
      Str(TRUE, <<"data", "n.txt">>), Str(TRUE, <<"etc", "passwd">>),
      Str(FALSE, <<"g.gif">>), NonePath }

\* img.format: the files of the environment are named after their content
FormatOf(p) ==
    LET name == p.segs[Len(p.segs)]
    IN  CASE name = "y.jpg" -> "JPEG"
          [] name = "p.PNG" -> "PNG"
          [] OTHER          -> "GIF"

Dms(d, m, s) == << Ratio(d, 1), Ratio(m, 1), Ratio(s, 2) >>

ExifInputs ==
    { [readable |-> FALSE, lat |-> None, lat_ref |-> None, lon |-> None, lon_ref |-> None],
      [readable |-> TRUE,  lat |-> None, lat_ref |-> None, lon |-> None, lon_ref |-> None],
      [readable |-> TRUE,  lat |-> Dms(48, 8, 3), lat_ref |-> <<"S">>,
                           lon |-> Dms(11, 34, 1), lon_ref |-> None],
      [readable |-> TRUE,  lat |-> Dms(48, 8, 3), lat_ref |-> <<"S">>,
                           lon |-> << Ratio(11, 1), Ratio(34, 1) >>, lon_ref |-> <<"W">>],
      [readable |-> TRUE,  lat |-> Dms(48, 8, 3), lat_ref |-> <<"S">>,
                           lon |-> Dms(11, 34, 1), lon_ref |-> <<"W">>] }

\* get_location_from_coordinates: an address, or None (no address, time-out,
\* service error)
LocationOutcomes == { None, <<"m","u","n","i","c","h">> }

Snow == <<"s","n">>

Berg == <<"b","g">>

Desc == <<"E","i","n"," ","B","e","r","g">>

\* generate_image_analysis: (result, error)
AnalysisOutcomes ==
    { [result |-> [error |-> Text("Error generating tags")],
       error  |-> Text("Error generating tags")],
      [result |-> [error |-> Text("Error generating description")],
       error  |-> Text("Error generating description")],
      [result |-> [tags |-> <<Snow, Berg>>, description |-> Desc], error |-> None],
      [result |-> [tags |-> <<>>, description |-> Desc], error |-> None] }

\* get_image_features: (features, error)
FeatureOutcomes ==
    { [result |-> [error |-> Text("Error getting image embedding")],
       error  |-> Text("Error getting image embedding")],
      [result |-> [embedding |-> Vec(VectorSize, 0), embedding_dim |-> VectorSize],
       error  |-> None],
      \* CLIP_MODEL_NAME names a model whose embeddings have another length
      [result |-> [embedding |-> Vec(768, 0), embedding_dim |-> 768],
       error  |-> None] }

MetadataOutcomes == {"raise", "open_error", "write_error", "ok"}

(***************************************************************************)
(* image_processor.ImageProcessor.process_single_image, one action a stage *)
(***************************************************************************)

NoRun ==
    [ image_path |-> NonePath, format_name |-> "none", gps_coords |-> None,
      location_name |-> None, ai_analysis |-> <<>>, clip_features |-> <<>>,
      image_data |-> <<>>, failed |-> "none", metadata |-> "none" ]

NoReturn == [result |-> <<>>, error |-> None]

\* process_bulk_images has not been called
NoBulk ==
    [ pc |-> "idle", directory_path |-> NonePath, max_images |-> None,
      image_files |-> <<>>, i |-> 0, results |-> <<>>, ret |-> NoReturn ]

\* none of the operations called on their own has been called
MoreInit ==
    /\ gps = <<>>
    /\ idop = <<>>
    /\ bypath = <<>>
    /\ apret = <<>>

\* no file is known to exist
NoDisk == disk = {}

\* nothing around the pipeline has run: app.processor is still None
AuxInit ==
    /\ uiret = <<>>
    /\ processor = None
    /\ built = 0
    /\ handler = <<>>
    /\ bulk = NoBulk
    /\ tagarg = <<>>
    /\ tagret = <<>>
    /\ ccret = <<>>
    /\ rt = <<>>
    /\ MoreInit
    /\ NoDisk

\* An identifier that is the same whenever it is drawn.
UuidFixed(n) == <<"uuid", 1>>

\* str(uuid.uuid4()), the n-th value drawn
Uuid(n) == <<"uuid", n>>

K_Description == <<"A","I"," ","D","e","s","c","r","i","p","t","i","o","n">>

K_Tags == <<"A","I"," ","T","a","g","s">>

K_Date == <<"P","r","o","c","e","s","s","i","n","g"," ","D","a","t","e">>

K_Latitude == <<"G","P","S"," ","L","a","t","i","t","u","d","e">>

K_Longitude == <<"G","P","S"," ","L","o","n","g","i","t","u","d","e">>

\* ", ".join(items)
RECURSIVE JoinComma(_)
JoinComma(items) ==
    IF items = <<>> THEN <<>>
    ELSE IF Len(items) = 1 THEN items[1]
    ELSE items[1] \o <<",", " ">> \o JoinComma(Tail(items))

\* the dict process_single_image hands to extract_and_add_metadata
metadata_to_add(image_data, gps_coords) ==
    LET keys == {K_Description, K_Tags, K_Date}
                \cup (IF gps_coords # None THEN {K_Latitude, K_Longitude} ELSE {})
    IN  [k \in keys |->
            CASE k = K_Description -> image_data.ai_description
              [] k = K_Tags        -> JoinComma(image_data.ai_tags)
              [] k = K_Date        -> image_data.processing_timestamp
              [] k = K_Latitude    -> <<"str", gps_coords[1]>>
              [] k = K_Longitude   -> <<"str", gps_coords[2]>>]

\* A call that checks the extension and goes on to open the file all the same.
AfterFailureGoesOn(stage, next) == IF stage = "extension_check" THEN next ELSE "done"

\* where the call goes after a fatal stage has failed: it returns
AfterFailure(stage, next) == "done"

\* A return that carries the result's "error" but no error message.
FailSilently(r, stage, next, what, error) ==
    /\ run' = [r EXCEPT !.failed = stage]
    /\ ret' = [result |-> [error |-> Text(what)], error |-> None]
    /\ pc' = "done"

\* a fatal stage failed: the call, its locals being r, returns (result, error)
Fail(r, stage, next, what, error) ==
    /\ run' = [r EXCEPT !.failed = stage]
    /\ ret' = [result |-> [error |-> Text(what)], error |-> error]
    /\ pc' = AfterFailure(stage, next)

Invoke(stage) == trace' = Append(trace, stage)

Rest == <<sarg, sret, squeries, vpath, vret, Aux>>

Call(p) ==
    /\ pc \in {"idle", "done"}
    /\ calls < MaxCalls
    /\ calls' = calls + 1
    /\ pc' = "validate"
    /\ run' = [NoRun EXCEPT !.image_path = p]
    /\ trace' = <<>>
    /\ ret' = NoReturn
    /\ written' = NothingWritten
    /\ UNCHANGED <<ALLOWED_PATHS, collections, collections_created, uuid, Rest>>

\* lines 79-81; a path that is no string makes os.path.abspath raise, which
\* the outer handler (lines 178-179) turns into "Processing failed"
PathCheck ==
    /\ pc = "validate"
    /\ Invoke("path_check")
    /\ IF run.image_path.none
       THEN Fail(run, "path_check", "exists", "Processing failed",
                 Text("Error processing image"))
       ELSE IF ~validate_file_path(ALLOWED_PATHS, run.image_path)
       THEN Fail(run, "path_check", "exists", "File path not allowed",
                 Text("File path not allowed"))
       ELSE pc' = "exists" /\ UNCHANGED <<run, ret>>
    /\ UNCHANGED <<ALLOWED_PATHS, collections, collections_created, uuid,
                   written, calls, Rest>>

\* lines 83-85
ExistsCheck ==
    /\ pc = "exists"
    /\ Invoke("exists_check")
    /\ \E exists \in BOOLEAN :
          IF ~exists
          THEN Fail(run, "exists_check", "extension", "File not found",
                    Text("File not found"))
          ELSE pc' = "extension" /\ UNCHANGED <<run, ret>>
    /\ UNCHANGED <<ALLOWED_PATHS, collections, collections_created, uuid,
                   written, calls, Rest>>

\* lines 87-91
ExtensionCheck ==
    /\ pc = "extension"
    /\ Invoke("extension_check")
    /\ IF ~has_supported_extension(run.image_path)
       THEN Fail(run, "extension_check", "read", "Unsupported image format",
                 Text("Unsupported format"))
       ELSE pc' = "read" /\ UNCHANGED <<run, ret>>
    /\ UNCHANGED <<ALLOWED_PATHS, collections, collections_created, uuid,
                   written, calls, Rest>>

\* lines 93-100
ImageRead ==
    /\ pc = "read"
    /\ Invoke("image_read")
    /\ \E readable \in BOOLEAN :
          IF ~readable
          THEN Fail(run, "image_read", "gps", "Failed to read image",
                    Text("Image read error"))
          ELSE /\ run' = [run EXCEPT !.format_name = FormatOf(run.image_path)]
               /\ pc' = "gps"
               /\ UNCHANGED ret
    /\ UNCHANGED <<ALLOWED_PATHS, collections, collections_created, uuid,
                   written, calls, Rest>>

\* lines 102-105
GpsExtract ==
    /\ pc = "gps"
    /\ Invoke("gps")
    /\ \E exif \in ExifInputs :
          LET gps_coords == get_gps_coordinates(exif)
          IN  /\ run' = [run EXCEPT !.gps_coords = gps_coords]
              /\ pc' = IF gps_coords # None THEN "geocode" ELSE "analysis"
    /\ UNCHANGED <<ALLOWED_PATHS, collections, collections_created, uuid,
                   ret, written, calls, Rest>>

\* lines 106-107
Geocode ==
    /\ pc = "geocode"
    /\ Invoke("geocode")
    /\ \E location \in LocationOutcomes :
          run' = [run EXCEPT !.location_name = location]
    /\ pc' = "analysis"
    /\ UNCHANGED <<ALLOWED_PATHS, collections, collections_created, uuid,
                   ret, written, calls, Rest>>

\* lines 109-118
Analysis ==
    /\ pc = "analysis"
    /\ Invoke("analysis")
    /\ \E out \in AnalysisOutcomes :
          IF out.error # None
          THEN Fail(run, "analysis", "embedding", "AI analysis failed", out.error)
          ELSE /\ run' = [run EXCEPT !.ai_analysis = out.result]
               /\ pc' = "embedding"
               /\ UNCHANGED ret
    /\ UNCHANGED <<ALLOWED_PATHS, collections, collections_created, uuid,
                   written, calls, Rest>>

\* lines 120-125
Embedding ==
    /\ pc = "embedding"
    /\ Invoke("embedding")
    /\ \E out \in FeatureOutcomes :
          IF out.error # None
          THEN Fail(run, "embedding", "upsert", "CLIP processing failed", out.error)
          ELSE /\ run' = [run EXCEPT !.clip_features = out.result]
               /\ pc' = "upsert"
               /\ UNCHANGED ret
    /\ UNCHANGED <<ALLOWED_PATHS, collections, collections_created, uuid,
                   written, calls, Rest>>

\* lines 127-144
build_image_data(r, image_id) ==
    [ image_id             |-> image_id,
      file_path            |-> abspath(r.image_path),
      format               |-> r.format_name,
      processing_timestamp |-> Text("now"),
      gps_coordinates      |-> r.gps_coords,
      location_name        |-> r.location_name,
      ai_tags              |-> Get(r.ai_analysis, "tags", <<>>),
      ai_description       |-> Get(r.ai_analysis, "description", <<>>),
      embedding            |-> Get(r.clip_features, "embedding", EmptyVec),
      embedding_dim        |-> Get(r.clip_features, "embedding_dim", 0) ]

\* lines 127-151: image_id is one uuid4(), the point id drawn inside
\* upsert_image the next one
Upsert ==
    /\ pc = "upsert"
    /\ Invoke("upsert")
    /\ uuid' = uuid + 2
    /\ \E failAt \in 1..(Len(get_distance_metrics) + 1) :
          LET image_data == build_image_data(run, Uuid(uuid + 1))
              up == upsert_image(collections, image_data, image_data.embedding,
                                 Uuid(uuid + 2), failAt)
          IN  /\ collections' = up.collections
              /\ IF up.error # None
                 THEN Fail([run EXCEPT !.image_data = image_data], "upsert", "metadata",
                           "Database storage failed", up.error)
                 ELSE /\ run' = [run EXCEPT !.image_data = image_data]
                      /\ pc' = "metadata"
                      /\ UNCHANGED ret
    /\ UNCHANGED <<ALLOWED_PATHS, collections_created, written, calls, Rest>>

\* A call without the handler of lines 166-167: the exception reaches the
\* outer handler.
MetadataReturnPropagates(outcome, image_data) ==
    IF outcome = "raise"
    THEN [result |-> [error |-> Text("Processing failed")],
          error |-> Text("Error processing image")]
    ELSE [result |-> [success |-> TRUE, image_data |-> image_data,
                      message |-> Text("Successfully processed")],
          error |-> None]

\* lines 166-176: the handler swallows the exception, the result of
\* extract_and_add_metadata is dropped
MetadataReturn(outcome, image_data) ==
    [result |-> [success |-> TRUE, image_data |-> image_data,
                 message |-> Text("Successfully processed")],
     error |-> None]

\* lines 153-176: whatever the write does, the call returns success
MetadataWrite ==
    /\ pc = "metadata"
    /\ Invoke("metadata")
    /\ \E outcome \in MetadataOutcomes :
          /\ written' =
                IF outcome = "raise" THEN NothingWritten
                ELSE extract_and_add_metadata(
                         run.format_name,
                         PyDict(metadata_to_add(run.image_data, run.gps_coords)),
                         outcome).written
          /\ run' = [run EXCEPT !.metadata = outcome]
          /\ ret' = MetadataReturn(outcome, run.image_data)
    /\ pc' = "done"
    /\ UNCHANGED <<ALLOWED_PATHS, collections, collections_created, uuid,
                   calls, Rest>>

\* ImageProcessor(): create_collections has run once against a server that
\* holds nothing; a failure there is only printed
Init ==
    /\ ALLOWED_PATHS \in {get_allowed_paths(<<>>), AllowedData}
    /\ \E failAt \in 1..(Len(get_distance_metrics) + 1) :
          LET made == create_collections(NoCollections, FALSE, failAt)
          IN  /\ collections = made.collections
              /\ collections_created = made.collections_created
    /\ uuid = 0
    /\ pc = "idle"
    /\ run = NoRun
    /\ trace = <<>>
    /\ ret = NoReturn
    /\ written = NothingWritten
    /\ calls = 0
    /\ sarg = <<>>
    /\ sret = NoReturn
    /\ squeries = <<>>
    /\ vpath = NonePath
    /\ vret = FALSE
    /\ AuxInit

Next ==
    \/ \E p \in PipelinePaths : Call(p)
    \/ PathCheck
    \/ ExistsCheck
    \/ ExtensionCheck
    \/ ImageRead
    \/ GpsExtract
    \/ Geocode
    \/ Analysis
    \/ Embedding
    \/ Upsert
    \/ MetadataWrite

Spec == Init /\ [][Next]_vars

(***************************************************************************)
(* utils.validate_file_path as a function of the allow-list and the path   *)
(***************************************************************************)

\* the longest path, in components, handed to validate_file_path
MaxSegs == 3

PathSegs == {"data", "data2", "etc", "x", "..", "y.jpg", "passwd"}

SegSeqs == UNION {[1..n -> PathSegs] : n \in 0..MaxSegs}

ValidatePaths == {Str(isAbs, segs) : isAbs \in BOOLEAN, segs \in SegSeqs}

AllowLists ==
    { <<>>, AllowedData,
      << Str(TRUE, <<"data", "x">>), Str(TRUE, <<"etc", "..", "home">>) >> }

ValidateFilePath(p) ==
    /\ pc \in {"idle", "paths_set"}
    /\ vpath' = p
    /\ vret' = validate_file_path(ALLOWED_PATHS, p)
    /\ pc' = "validated"
    /\ UNCHANGED <<ALLOWED_PATHS, collections, collections_created, uuid, run,
                   trace, ret, written, calls, sarg, sret, squeries, Aux>>

InitPath ==
    /\ ALLOWED_PATHS \in AllowLists
    /\ collections = NoCollections
    /\ collections_created = FALSE
    /\ uuid = 0
    /\ pc = "idle"
    /\ run = NoRun
    /\ trace = <<>>
    /\ ret = NoReturn
    /\ written = NothingWritten
    /\ calls = 0
    /\ sarg = <<>>
    /\ sret = NoReturn
    /\ squeries = <<>>
    /\ vpath = NonePath
    /\ vret = FALSE
    /\ AuxInit

NextPath == \E p \in ValidatePaths : ValidateFilePath(p)

SpecPath == InitPath /\ [][NextPath]_vars

(***************************************************************************)
(* QdrantManager.search_similar_images and ImageProcessor.search_images    *)
(***************************************************************************)

\* the length of the vectors SentenceTransformer("all-MiniLM-L6-v2") encodes
TextDim == 384

\* the angle between two unit vectors: a distance, the smaller the closer
ScoreAsDistance(v, w) ==
    IF VecDir(v) >= VecDir(w) THEN VecDir(v) - VecDir(w) ELSE VecDir(w) - VecDir(v)

\* twice the cosine of the angle between two unit vectors
Score(v, w) ==
    LET delta == IF VecDir(v) >= VecDir(w) THEN VecDir(v) - VecDir(w)
                 ELSE VecDir(w) - VecDir(v)
    IN  CASE delta = 0 -> 2
          [] delta = 1 -> 1
          [] delta = 2 -> -1
          [] OTHER     -> -2

Orderings(S) ==
    {q \in [1..Cardinality(S) -> S] : \A i, j \in DOMAIN q : i # j => q[i] # q[j]}

\* the orders in which the server may rank the points: best score first, points
\* of equal score in any order
Rankings(points, query) ==
    {q \in Orderings(points) :
        \A i \in 1..(Len(q) - 1) :
            Score(q[i].vector, query) >= Score(q[i + 1].vector, query)}

\* the rankings a query with this argument can meet; a call that has no
\* vector to search with never reaches the server
RankingsFor(points, query) ==
    IF query # None /\ VecDim(query) > 0 THEN Rankings(points, query) ELSE {<<>>}

Min(a, b) == IF a <= b THEN a ELSE b

\* QdrantManager.search_similar_images on the collection of distance_metric:
\* [results, error].  serverUp: the query_points call goes through; ranking:
\* the order the server ranks the points in.
search_similar_images(colls, query_embedding, limit, distance_metric, serverUp, ranking) ==
    IF ~serverUp \/ ~colls[distance_metric].exists
       \/ VecDim(query_embedding) # VectorSize
    THEN [results |-> <<>>, error |-> Text("Search failed")]
    ELSE [results |->
              [i \in 1..Min(limit, Len(ranking)) |->
                  [ id       |-> ranking[i].id,
                    score    |-> Score(ranking[i].vector, query_embedding),
                    payload  |-> ranking[i].payload,
                    distance |-> IF distance_metric = "cosine"
                                 THEN <<Score(ranking[i].vector, query_embedding)>>
                                 ELSE None ]],
          error |-> None]

NoArg == [kind |-> "none", val |-> <<>>]

\* bool(value) of an argument that is None, a list or a str
TruthyList(v) == v.kind = "list" /\ Len(v.val) > 0

\* A truth test that only an absent vector fails.
TruthyVecUnlessNone(v) == v # None

TruthyVec(v) == v # None /\ VecDim(v) > 0

TruthyStr(v) == v # None /\ Len(v) > 0

\* A filter that compares the requested tag as it was typed.
matches_tags_as_typed(payload, tags) ==
    \E i \in 1..Len(tags) :
        tags[i] \in {Lower(t) : t \in Range(Get(payload, "ai_tags", <<>>))}

\* lines 319-321: any(tag.lower() in [t.lower() for t in result_tags] ...)
matches_tags(payload, tags) ==
    \E i \in 1..Len(tags) :
        Lower(tags[i]) \in {Lower(t) : t \in Range(Get(payload, "ai_tags", <<>>))}

\* lines 311-324
filter_by_tags(results, tags) ==
    SelectSeq(results, LAMBDA r : matches_tags(r.payload, tags))

EmbeddingWord == <<"e","m","b","e","d","d","i","n","g">>

\* A router that falls back to a query on the null direction when only tags
\* are given.
query_vector_or_fallback(query_embedding, text_query, tags, textEmbedding) ==
    IF TruthyStr(text_query) /\ ~TruthyVec(query_embedding) THEN textEmbedding
    ELSE IF ~TruthyVec(query_embedding) /\ TruthyList(tags) THEN Vec(VectorSize, 0)
    ELSE query_embedding

\* lines 292-296: the vector the call searches with
query_vector(query_embedding, text_query, tags, textEmbedding) ==
    IF TruthyStr(text_query) /\ ~TruthyVec(query_embedding) THEN textEmbedding
    ELSE query_embedding

\* a numpy array in place of the list the signature names: bool() of an array
\* of more than one element raises ValueError
NdArray(dim, dir) == <<"ndarray", dim, dir>>

TruthTestRaises(v) == v[1] = "ndarray" /\ v[2] > 1

\* A handler that reports the failure in the result only.
search_failed_unreported ==
    [result |-> [error |-> Text("Search failed")], error |-> None]

\* lines 333-334: what the outer handler returns for an exception
search_failed ==
    [result |-> [error |-> Text("Search failed")], error |-> Text("Error in search")]

\* A search that asks every collection, as upsert_image writes to every one.
store_queries_every_metric(embedding, limit, found) ==
    [i \in 1..Len(get_distance_metrics) |->
        [collection |-> get_distance_metrics[i], query |-> embedding,
         limit |-> limit, answer |-> found.results]]

\* lines 304-306: one search_similar_images call, distance_metric left at its
\* default, hence one query_points on the cosine collection
store_queries(embedding, limit, found) ==
    << [collection |-> "cosine", query |-> embedding, limit |-> limit,
        answer |-> found.results] >>

\* ImageProcessor.search_images: [ret, queries], queries being the calls it
\* made to the store, each with the answer the store gave.  textEmbedding is
\* what get_text_embedding returns.
search_images(colls, query_embedding, text_query, tags, limit, textEmbedding, serverUp, ranking) ==
    LET embedding == query_vector(query_embedding, text_query, tags, textEmbedding)
        found == search_similar_images(colls, embedding, limit, "cosine",
                                       serverUp, ranking)
        results == IF TruthyList(tags) THEN filter_by_tags(found.results, tags.val)
                   ELSE found.results
    IN  IF TruthTestRaises(query_embedding)
        THEN [ret |-> search_failed, queries |-> <<>>]
        ELSE IF ~TruthyVec(embedding)
        THEN [ret |-> [result |-> [error |-> Text("No query provided")],
                       error |-> Text("Please provide either text query or embedding")],
              queries |-> <<>>]
        ELSE IF found.error # None
        THEN [ret |-> [result |-> [error |-> Text("Search failed")],
                       error |-> found.error],
              queries |-> store_queries(embedding, limit, found)]
        ELSE [ret |-> [result |-> [ query |-> IF TruthyStr(text_query) THEN text_query
                                              ELSE EmbeddingWord,
                                    results |-> results,
                                    total_found |-> Len(results),
                                    limit |-> limit ],
                       error |-> None],
              queries |-> store_queries(embedding, limit, found)]

\* the records a store holds
MaxPoints == 2

SNOW == <<"S","N">>

SeedTags == { <<Snow, Berg>>, <<SNOW>>, <<>> }

SeedDirs == {0, 1, 2}

Seeds ==
    {[ai_tags |-> t, embedding |-> Vec(VectorSize, d)] : t \in SeedTags, d \in SeedDirs}

SeedSeqs == UNION {[1..n -> Seeds] : n \in 0..MaxPoints}

\* the store after upsert_image(seeds[1], ...), upsert_image(seeds[2], ...), ...
RECURSIVE Seeded(_, _, _)
Seeded(colls, seeds, n) ==
    IF seeds = <<>> THEN colls
    ELSE Seeded(upsert_image(colls,
                             [image_id |-> Uuid(n + 1), ai_tags |-> Head(seeds).ai_tags],
                             Head(seeds).embedding, Uuid(n + 2),
                             Len(get_distance_metrics) + 1).collections,
                Tail(seeds), n + 2)

QueryEmbeddings ==
    { None, EmptyVec, Vec(VectorSize, 0), Vec(VectorSize, 2), Vec(TextDim, 0),
      NdArray(VectorSize, 0) }

TextQueries == {None, <<>>, <<"b","e","r","g">>}

TagArgs == {NoArg, PyList(<<>>), PyList(<<Snow>>), PyList(<<SNOW, <<"x">> >>)}

Limits == {1, 10}

\* get_text_embedding: the encoded text, or an empty array when encoding fails
TextEmbeddings == {Vec(TextDim, 1), EmptyVec}

SearchImages(query_embedding, text_query, tags, limit) ==
    /\ pc = "idle"
    /\ \E textEmbedding \in TextEmbeddings, serverUp \in BOOLEAN :
       \E ranking \in RankingsFor(collections["cosine"].points,
                                  query_vector(query_embedding, text_query, tags,
                                               textEmbedding)) :
          LET out == search_images(collections, query_embedding, text_query, tags,
                                   limit, textEmbedding, serverUp, ranking)
          IN  /\ sret' = out.ret
              /\ squeries' = out.queries
              /\ sarg' = [query_embedding |-> query_embedding,
                          text_query |-> text_query, tags |-> tags, limit |-> limit,
                          text_embedding |->
                              IF TruthyStr(text_query) /\ ~TruthyVec(query_embedding)
                              THEN textEmbedding ELSE None]
    /\ pc' = "searched"
    /\ UNCHANGED <<ALLOWED_PATHS, collections, collections_created, uuid, run,
                   trace, ret, written, calls, vpath, vret, Aux>>

\* ImageProcessor() against a server that holds the records of earlier
\* upsert_image calls
InitSearch ==
    /\ ALLOWED_PATHS = get_allowed_paths(<<>>)
    /\ \E failAt \in {1, Len(get_distance_metrics) + 1}, seeds \in SeedSeqs :
          LET made == create_collections(NoCollections, FALSE, failAt)
          IN  /\ collections = Seeded(made.collections, seeds, 0)
              /\ collections_created = made.collections_created
              /\ uuid = 2 * Len(seeds)
    /\ pc = "idle"
    /\ run = NoRun
    /\ trace = <<>>
    /\ ret = NoReturn
    /\ written = NothingWritten
    /\ calls = 0
    /\ sarg = <<>>
    /\ sret = NoReturn
    /\ squeries = <<>>
    /\ vpath = NonePath
    /\ vret = FALSE
    /\ AuxInit


(***************************************************************************)
(* image_processor.ImageProcessor.process_bulk_images                      *)
(***************************************************************************)

\* a Python int
PyInt(n) == <<"int", n>>

\* bool(max_images): None and 0 are false
TruthyInt(v) == v # None /\ v[2] # 0

\* seq[:n] for n >= 0
Prefix(seq, n) == SubSeq(seq, 1, Min(n, Len(seq)))

\* the directory os.walk visits k-th: the directory itself, then its subdirectories
WalkRoot(directory_path, k) ==
    Str(directory_path.abs, directory_path.segs \o [j \in 1..(k - 1) |-> "x"])

\* os.path.join(root, file)
join(root, file) == Str(root.abs, Append(root.segs, file))

\* lines 209-212: the supported files of one directory, in listing order
supported_files(root, files) ==
    LET paths == [j \in DOMAIN files |-> join(root, files[j])]
    IN  SelectSeq(paths, has_supported_extension)

\* lines 207-218: the loop over os.walk; walk[k] lists the files of the k-th
\* directory; the limit is looked at once a directory has been listed
RECURSIVE find_image_files(_, _, _, _, _)
find_image_files(directory_path, walk, k, max_images, image_files) ==
    IF k > Len(walk) THEN image_files
    ELSE LET found == image_files
                      \o supported_files(WalkRoot(directory_path, k), walk[k])
         IN  IF TruthyInt(max_images) /\ Len(found) >= max_images[2]
             THEN Prefix(found, max_images[2])
             ELSE find_image_files(directory_path, walk, k + 1, max_images, found)

\* the deepest tree of directories a bulk call is given
MaxDirs == 2

Listing == <<"n.txt", "p.PNG", "y.jpg">>

DirListings ==
    {SelectSeq(Listing, LAMBDA f : f \in S) : S \in SUBSET Range(Listing)}

Walks == UNION {[1..n -> DirListings] : n \in 1..MaxDirs}

BulkDirectories == { Str(TRUE, <<"data">>), Str(TRUE, <<"etc">>), NonePath }

\* the largest max_images a bulk call is given
MaxCount == 3

MaxImages == {None} \cup {PyInt(n) : n \in 0..MaxCount}

\* lines 194-232: the checks, the enumeration and the empty summary; a
\* directory_path that is no string makes os.path.abspath raise, which the
\* outer handler (lines 269-270) turns into "Bulk processing failed"
BulkStart(directory_path, max_images) ==
    /\ bulk.pc = "idle"
    /\ pc = "idle"
    /\ \E isdir \in BOOLEAN, walk \in Walks :
          LET image_files == find_image_files(directory_path, walk, 1, max_images, <<>>)
              start == [NoBulk EXCEPT !.directory_path = directory_path,
                                      !.max_images = max_images]
              Return(what, error) ==
                  [start EXCEPT !.pc = "done",
                                !.ret = [result |-> [error |-> Text(what)],
                                         error |-> Text(error)]]
          IN  bulk' =
                IF directory_path.none
                THEN Return("Bulk processing failed", "Error in bulk processing")
                ELSE IF ~validate_file_path(ALLOWED_PATHS, directory_path)
                THEN Return("Directory path not allowed", "Directory path not allowed")
                ELSE IF ~isdir
                THEN Return("Directory not found", "Directory not found")
                ELSE IF image_files = <<>>
                THEN Return("No images found",
                            "No supported image files found in directory")
                ELSE [start EXCEPT
                        !.pc = "loop",
                        !.image_files = image_files,
                        !.i = 1,
                        !.results = [ total_images |-> Len(image_files),
                                      processed |-> 0, failed |-> 0,
                                      results |-> <<>>, end_time |-> None ]]
    /\ UNCHANGED <<ALLOWED_PATHS, collections, collections_created, uuid, pc, run,
                   trace, ret, written, calls, sarg, sret, squeries, vpath, vret,
                   uiret, processor, built, handler, tagarg, tagret, ccret, rt, More>>

\* line 240: self.process_single_image(image_path) is entered
BulkCall ==
    /\ bulk.pc = "loop"
    /\ pc \in {"idle", "done"}
    /\ bulk' = [bulk EXCEPT !.pc = "wait"]
    /\ pc' = "validate"
    /\ run' = [NoRun EXCEPT !.image_path = bulk.image_files[bulk.i]]
    /\ trace' = <<>>
    /\ ret' = NoReturn
    /\ written' = NothingWritten
    /\ UNCHANGED <<ALLOWED_PATHS, collections, collections_created, uuid, calls,
                   sarg, sret, squeries, vpath, vret,
                   uiret, processor, built, handler, tagarg, tagret, ccret, rt, More>>

\* An entry that reports every file as processed.
bulk_entry_always_success(image_path, out) ==
    [ image_path |-> image_path, status |-> "success",
      data |-> Get(out.result, "image_data", <<>>) ]

\* lines 241-258: the entry of one file
bulk_entry(image_path, out) ==
    IF out.error # None
    THEN [ image_path |-> image_path, status |-> "failed", error |-> out.error ]
    ELSE [ image_path |-> image_path, status |-> "success",
           data |-> Get(out.result, "image_data", <<>>) ]

\* A caller that goes on without waiting for the call it made.
HasReturnedOrNot(position) == TRUE

\* line 240 is a synchronous call: the loop goes on once the call has returned
HasReturned(position) == position = "done"

\* lines 240-267: the call has returned; its entry is appended and counted,
\* and after the last file the summary is returned
BulkCollect ==
    /\ bulk.pc = "wait"
    /\ HasReturned(pc)
    /\ LET entry == bulk_entry(bulk.image_files[bulk.i], ret)
           counted == [bulk.results EXCEPT
                          !.failed = @ + (IF entry.status = "failed" THEN 1 ELSE 0),
                          !.processed = @ + (IF entry.status = "success" THEN 1 ELSE 0),
                          !.results = Append(@, entry)]
       IN  bulk' =
             IF bulk.i < Len(bulk.image_files)
             THEN [bulk EXCEPT !.pc = "loop", !.i = @ + 1, !.results = counted]
             ELSE [bulk EXCEPT
                     !.pc = "done",
                     !.results = [counted EXCEPT !.end_time = Text("now")],
                     !.ret = [result |-> [counted EXCEPT !.end_time = Text("now")],
                              error |-> None]]
    /\ UNCHANGED <<ALLOWED_PATHS, collections, collections_created, uuid, pc, run,
                   trace, ret, written, calls, sarg, sret, squeries, vpath, vret,
                   uiret, processor, built, handler, tagarg, tagret, ccret, rt, More>>

\* The files of a bulk run: they exist, carry no GPS tags and can be written
\* to; a file may be corrupt and the vision-language model may fail on it.
BulkEnvironment ==
    /\ run'.failed \in {"none", "image_read", "analysis"}
    /\ run'.gps_coords = None
    /\ run'.metadata \in {"none", "ok"}
    /\ ret'.error # Text("Error generating description")
    /\ run'.ai_analysis # <<>> => run'.ai_analysis.tags # <<>>

InitBulk ==
    /\ ALLOWED_PATHS = AllowedData
    /\ LET made == create_collections(NoCollections, FALSE,
                                      Len(get_distance_metrics) + 1)
       IN  /\ collections = made.collections
           /\ collections_created = made.collections_created
    /\ uuid = 0
    /\ pc = "idle"
    /\ run = NoRun
    /\ trace = <<>>
    /\ ret = NoReturn
    /\ written = NothingWritten
    /\ calls = 0
    /\ sarg = <<>>
    /\ sret = NoReturn
    /\ squeries = <<>>
    /\ vpath = NonePath
    /\ vret = FALSE
    /\ AuxInit

NextBulk ==
    \/ \E directory_path \in BulkDirectories, max_images \in MaxImages :
          BulkStart(directory_path, max_images)
    \/ BulkCall
    \/ PathCheck /\ BulkEnvironment
    \/ ExistsCheck /\ BulkEnvironment
    \/ ExtensionCheck /\ BulkEnvironment
    \/ ImageRead /\ BulkEnvironment
    \/ GpsExtract /\ BulkEnvironment
    \/ Analysis /\ BulkEnvironment
    \/ Embedding /\ BulkEnvironment
    \/ Upsert /\ BulkEnvironment
    \/ MetadataWrite /\ BulkEnvironment
    \/ BulkCollect

SpecBulk == InitBulk /\ [][NextBulk]_vars

(***************************************************************************)
(* QdrantManager.create_collections and cleanup_collections on a server    *)
(* that other clients have used before                                     *)
(***************************************************************************)

\* QdrantManager.cleanup_collections: [collections, collections_created,
\* success]; the connection drops at the failAt-th collection
cleanup_collections(colls, created, failAt) ==
    [ collections |->
          [m \in Metrics |-> IF MetricIndex(m) < failAt THEN NoCollection ELSE colls[m]],
      collections_created |-> IF failAt > Len(get_distance_metrics) THEN FALSE
                              ELSE created,
      success |-> failAt > Len(get_distance_metrics) ]

\* what the server may hold under the name of metric m before the manager
\* is constructed
FoundCollections(m) ==
    { NoCollection,
      [exists |-> TRUE, points |-> {}, size |-> VectorSize, distance |-> m],
      [exists |-> TRUE, points |-> {}, size |-> TextDim, distance |-> m],
      [exists |-> TRUE, points |-> {}, size |-> VectorSize,
       distance |-> IF m = "cosine" THEN "dot" ELSE "cosine"] }

\* the most calls made on one QdrantManager
MaxStoreCalls == 2

CreateCollections ==
    /\ pc \in {"idle", "created", "cleaned"}
    /\ calls < MaxStoreCalls
    /\ calls' = calls + 1
    /\ \E failAt \in 1..(Len(get_distance_metrics) + 1) :
          LET made == create_collections(collections, collections_created, failAt)
          IN  /\ collections' = made.collections
              /\ collections_created' = made.collections_created
              /\ ccret' = [success |-> made.success]
    /\ pc' = "created"
    /\ UNCHANGED <<ALLOWED_PATHS, uuid, run, trace, ret, written, sarg, sret,
                   squeries, vpath, vret, uiret, processor, built, handler, bulk,
                   tagarg, tagret, rt, More>>

CleanupCollections ==
    /\ pc \in {"idle", "created", "cleaned"}
    /\ calls < MaxStoreCalls
    /\ calls' = calls + 1
    /\ \E failAt \in 1..(Len(get_distance_metrics) + 1) :
          LET out == cleanup_collections(collections, collections_created, failAt)
          IN  /\ collections' = out.collections
              /\ collections_created' = out.collections_created
              /\ ccret' = [success |-> out.success]
    /\ pc' = "cleaned"
    /\ UNCHANGED <<ALLOWED_PATHS, uuid, run, trace, ret, written, sarg, sret,
                   squeries, vpath, vret, uiret, processor, built, handler, bulk,
                   tagarg, tagret, rt, More>>

\* QdrantManager(): collections_created = False, nothing sent to the server yet
InitCollections ==
    /\ ALLOWED_PATHS = get_allowed_paths(<<>>)
    /\ collections \in [Metrics -> UNION {FoundCollections(m) : m \in Metrics}]
    /\ \A m \in Metrics : collections[m] \in FoundCollections(m)
    /\ collections_created = FALSE
    /\ uuid = 0
    /\ pc = "idle"
    /\ run = NoRun
    /\ trace = <<>>
    /\ ret = NoReturn
    /\ written = NothingWritten
    /\ calls = 0
    /\ sarg = <<>>
    /\ sret = NoReturn
    /\ squeries = <<>>
    /\ vpath = NonePath
    /\ vret = FALSE
    /\ AuxInit

NextCollections == CreateCollections \/ CleanupCollections

SpecCollections == InitCollections /\ [][NextCollections]_vars

(***************************************************************************)
(* app.perform_new_search                                                  *)
(***************************************************************************)

\* the parameters of ImageProcessor.search_images (lines 272-278)
search_images_params == {"query_embedding", "text_query", "tags", "limit"}

\* Python binds the keyword arguments of a call to the parameters of the
\* function; a keyword that names no parameter raises TypeError
Binds(params, kwargs) == DOMAIN kwargs \subseteq params

\* lines 149-153: the stripped, non-empty pieces of the comma-separated text
search_tags_list(search_tags) ==
    IF Len(search_tags) = 0 THEN NoArg
    ELSE PyList(SelectSeq([i \in DOMAIN Split(search_tags, ",") |->
                               Strip(Split(search_tags, ",")[i])],
                          LAMBDA t : Len(t) > 0))

\* lines 148: search_text.strip() if search_text else None
query_text(search_text) == IF Len(search_text) = 0 THEN None ELSE Strip(search_text)

\* app.perform_new_search: [ret, queries, temp_files], temp_files being the
\* temp_search_* files there are when it returns.  copied: shutil.copy2 of the query
\* image went through; the other arguments are the collaborators' answers to
\* the search_images call.
perform_new_search(colls, search_type, query_image, search_text, search_tags, copied, textEmbedding, serverUp, ranking) ==
    LET query_path == IF search_type = "image" /\ ~query_image.none
                      THEN Text("temp_search.jpg") ELSE None
        kwargs == [ query_image_path |-> query_path,
                    text_query       |-> query_text(search_text),
                    tags             |-> search_tags_list(search_tags),
                    limit            |-> 10 ]
        out == search_images(colls, None, kwargs.text_query, kwargs.tags,
                             kwargs.limit, textEmbedding, serverUp, ranking)
        \* lines 174-176 remove the copy; an exception raised before them
        \* leaves it where it is
        kept == IF query_path # None THEN {query_path} ELSE {}
    IN  IF search_type = "image" /\ ~query_image.none /\ ~copied
        THEN [ret |-> << <<>>, Text("Error processing query image") >>,
              queries |-> <<>>, temp_files |-> {}]
        ELSE IF ~Binds(search_images_params, kwargs)
        THEN [ret |-> << <<>>, None, Text("Search interface error") >>,
              queries |-> <<>>, temp_files |-> kept]
        ELSE IF out.ret.error # None
        THEN [ret |-> << <<>>, None, Text("Search error") >>, queries |-> out.queries,
              temp_files |-> {}]
        ELSE IF Len(out.ret.result.results) = 0
        THEN [ret |-> << <<>>, Text("NO RESULTS FOUND"), None >>,
              queries |-> out.queries, temp_files |-> {}]
        ELSE [ret |-> << [i \in DOMAIN out.ret.result.results |->
                              out.ret.result.results[i].id],
                         Text("FRESH SEARCH RESULTS"), None >>,
              queries |-> out.queries, temp_files |-> {}]

SearchTypes == {"image", "text"}

QueryImages == {NonePath, Str(TRUE, <<"data", "x", "y.jpg">>)}

SearchTexts == { <<>>, <<" ", "b", "g">> }

SearchTagTexts == { <<>>, <<",">>, <<"s", "n", ",", " ", "b", "g">> }

PerformNewSearch(search_type, query_image, search_text, search_tags) ==
    /\ pc = "idle"
    /\ \E copied \in BOOLEAN, textEmbedding \in TextEmbeddings, serverUp \in BOOLEAN :
       \E ranking \in RankingsFor(collections["cosine"].points,
                                  query_vector(None, query_text(search_text),
                                               search_tags_list(search_tags),
                                               textEmbedding)) :
          LET out == perform_new_search(collections, search_type, query_image,
                                        search_text, search_tags, copied,
                                        textEmbedding, serverUp, ranking)
          IN  /\ uiret' = [search_type |-> search_type, query_image |-> query_image,
                           search_text |-> search_text, search_tags |-> search_tags,
                           copied |-> copied, ret |-> out.ret,
                           temp_files |-> out.temp_files]
              /\ squeries' = out.queries
    /\ pc' = "ui_done"
    /\ UNCHANGED <<ALLOWED_PATHS, collections, collections_created, uuid, run,
                   trace, ret, written, calls, sarg, sret, vpath, vret,
                   processor, built, handler, bulk, tagarg, tagret, ccret, rt, More>>

NextSearch ==
    \/ \E qe \in QueryEmbeddings, text \in TextQueries, tags \in TagArgs,
          limit \in Limits :
          SearchImages(qe, text, tags, limit)
    \/ \E search_type \in SearchTypes, query_image \in QueryImages,
          search_text \in SearchTexts, search_tags \in SearchTagTexts :
          PerformNewSearch(search_type, query_image, search_text, search_tags)

SpecSearch == InitSearch /\ [][NextSearch]_vars

(***************************************************************************)
(* app.initialize_processor, called by the handlers Gradio runs on its     *)
(* worker threads                                                          *)
(***************************************************************************)

\* the handler invocations that may be in progress at once
MaxThreads == 2

Threads == 1..MaxThreads

\* the most invocations one worker thread serves
MaxInvocations == 2

\* the n-th ImageProcessor object constructed
Instance(n) == <<"ImageProcessor", n>>

IdleHandler == [pc |-> "idle", served |-> 0, got |-> None]

SingletonUnchanged ==
    UNCHANGED <<uuid, pc, run, trace, ret, written, calls, sarg, sret, squeries,
                vpath, vret, uiret, bulk, tagarg, tagret, ccret, rt, More>>

\* a handler calls initialize_processor()
Enter(t) ==
    /\ handler[t].pc = "idle"
    /\ handler[t].served < MaxInvocations
    /\ handler' = [handler EXCEPT ![t].pc = "test"]
    /\ UNCHANGED <<ALLOWED_PATHS, collections, collections_created, processor, built, More>>
    /\ SingletonUnchanged

\* line 23: if processor is None
TestNone(t) ==
    /\ handler[t].pc = "test"
    /\ handler' = [handler EXCEPT
                      ![t].pc = IF processor = None THEN "construct" ELSE "return"]
    /\ UNCHANGED <<ALLOWED_PATHS, collections, collections_created, processor, built, More>>
    /\ SingletonUnchanged

\* line 24: processor = ImageProcessor().  The constructor loads the models,
\* connects to the server, runs create_collections and stores the allow-list;
\* when it raises, the exception leaves initialize_processor and the global
\* stays as it is.
Construct(t) ==
    /\ handler[t].pc = "construct"
    /\ \E raises \in BOOLEAN, failAt \in {1, Len(get_distance_metrics) + 1} :
          IF raises
          THEN /\ handler' = [handler EXCEPT ![t].pc = "idle", ![t].served = @ + 1,
                                             ![t].got = None]
               /\ UNCHANGED <<ALLOWED_PATHS, collections, collections_created,
                              processor, built, More>>
          ELSE LET made == create_collections(collections, FALSE, failAt)
               IN  /\ built' = built + 1
                   /\ processor' = Instance(built + 1)
                   /\ collections' = made.collections
                   /\ collections_created' = made.collections_created
                   /\ ALLOWED_PATHS' = get_allowed_paths(ALLOWED_PATHS)
                   /\ handler' = [handler EXCEPT ![t].pc = "return"]
    /\ SingletonUnchanged

\* line 25: return processor
ReturnProcessor(t) ==
    /\ handler[t].pc = "return"
    /\ handler' = [handler EXCEPT ![t].pc = "idle", ![t].served = @ + 1,
                                  ![t].got = processor]
    /\ UNCHANGED <<ALLOWED_PATHS, collections, collections_created, processor, built, More>>
    /\ SingletonUnchanged

\* the module has been imported: processor = None, Config.ALLOWED_PATHS = []
InitSingleton ==
    /\ ALLOWED_PATHS = <<>>
    /\ collections = NoCollections
    /\ collections_created = FALSE
    /\ uuid = 0
    /\ pc = "idle"
    /\ run = NoRun
    /\ trace = <<>>
    /\ ret = NoReturn
    /\ written = NothingWritten
    /\ calls = 0
    /\ sarg = <<>>
    /\ sret = NoReturn
    /\ squeries = <<>>
    /\ vpath = NonePath
    /\ vret = FALSE
    /\ uiret = <<>>
    /\ processor = None
    /\ built = 0
    /\ handler = [t \in Threads |-> IdleHandler]
    /\ bulk = NoBulk
    /\ tagarg = <<>>
    /\ tagret = <<>>
    /\ ccret = <<>>
    /\ rt = <<>>
    /\ MoreInit
    /\ NoDisk

NextSingleton ==
    \E t \in Threads : Enter(t) \/ TestNone(t) \/ Construct(t) \/ ReturnProcessor(t)

SpecSingleton == InitSingleton /\ [][NextSingleton]_vars

(***************************************************************************)
(* ollama_client.OllamaClient.generate_tags                                *)
(* The answer of the model is either a JSON document, given by the value   *)
(* json.loads returns for it, or a text json.loads rejects, given by its   *)
(* characters.                                                             *)
(***************************************************************************)

JsonStr(chars) == [kind |-> "str", val |-> chars]

\* a JSON value that is no string: a number, null, an object, a nested array
JsonOther == [kind |-> "other", val |-> <<>>]

JsonList(items) == [kind |-> "list", val |-> items]

\* A cleaning that lower-cases the tag as it came.
clean_tag_unstripped(tag) == Lower(tag)

\* line 112: tag.strip().lower()
clean_tag(tag) == Lower(Strip(tag))

\* lines 108-114: the strings among the items that are not blank, cleaned,
\* those longer than one character kept
RECURSIVE clean_json_tags(_)
clean_json_tags(items) ==
    IF items = <<>> THEN <<>>
    ELSE LET tag == Head(items)
             kept == IF tag.kind = "str" /\ Len(Strip(tag.val)) > 0
                        /\ Len(clean_tag(tag.val)) > 1
                     THEN << clean_tag(tag.val) >> ELSE <<>>
         IN  kept \o clean_json_tags(Tail(items))

\* lines 129-135: the non-blank pieces of a line with commas
RECURSIVE sub_tags(_)
sub_tags(pieces) ==
    IF pieces = <<>> THEN <<>>
    ELSE (IF Len(Strip(Head(pieces))) > 0 THEN << Lower(Strip(Head(pieces))) >>
          ELSE <<>>)
         \o sub_tags(Tail(pieces))

\* lines 127-138: the tags one line of text gives
line_tags(raw) ==
    LET line == Strip(StripChars(StripChars(Strip(raw), {"-"}), {"*"}))
    IN  IF Len(line) > 0 /\ "," \in Range(line) THEN sub_tags(Split(line, ","))
        ELSE IF Len(line) > 0 THEN << Lower(line) >>
        ELSE <<>>

\* lines 124-142
RECURSIVE text_tags(_)
text_tags(lines) ==
    IF lines = <<>> THEN <<>> ELSE line_tags(Head(lines)) \o text_tags(Tail(lines))

\* OllamaClient.generate_tags: [tags, error]
generate_tags(response, max_tags) ==
    CASE response.kind = "missing" ->
            [tags |-> <<>>, error |-> Text("Image file not found")]
      [] response.kind = "raise" ->
            [tags |-> <<>>, error |-> Text("Error generating tags")]
      [] response.kind = "json" /\ response.value.kind = "list" ->
            [tags |-> Prefix(clean_json_tags(response.value.val), max_tags),
             error |-> None]
      [] response.kind = "json" /\ response.value.kind # "list" ->
            [tags |-> <<>>, error |-> Text("Failed to parse tags from response")]
      [] response.kind = "text" ->
            [tags |-> Prefix(SelectSeq(text_tags(Split(Strip(response.val), "\n")),
                                       LAMBDA tag : Len(tag) > 1),
                             max_tags),
             error |-> None]

\* the longest array and the longest text the model answers with
MaxItems == 2

MaxText == 4

ItemStrings ==
    { <<>>, <<" ">>, <<"a">>, <<"a", "S">>, <<" ", "a", "S", " ">>, <<"S", " ", "n">> }

JsonItems == {JsonStr(v) : v \in ItemStrings} \cup {JsonOther}

TextChars == {"a", "S", " ", ",", "-", "*", "\n"}

Responses ==
    {[kind |-> "missing"], [kind |-> "raise"], [kind |-> "json", value |-> JsonOther]}
    \cup {[kind |-> "json", value |-> JsonList(items)] :
             items \in UNION {[1..n -> JsonItems] : n \in 0..MaxItems}}
    \cup {[kind |-> "text", val |-> chars] :
             chars \in UNION {[1..n -> TextChars] : n \in 0..MaxText}}

MaxTagsArgs == {0, 1, 10}

GenerateTags ==
    /\ pc = "idle"
    /\ tagret' = generate_tags(tagarg.response, tagarg.max_tags)
    /\ pc' = "tagged"
    /\ UNCHANGED <<ALLOWED_PATHS, collections, collections_created, uuid, run,
                   trace, ret, written, calls, sarg, sret, squeries, vpath, vret,
                   uiret, processor, built, handler, bulk, tagarg, ccret, rt, More>>

InitTags ==
    /\ ALLOWED_PATHS = get_allowed_paths(<<>>)
    /\ collections = NoCollections
    /\ collections_created = FALSE
    /\ uuid = 0
    /\ pc = "idle"
    /\ run = NoRun
    /\ trace = <<>>
    /\ ret = NoReturn
    /\ written = NothingWritten
    /\ calls = 0
    /\ sarg = <<>>
    /\ sret = NoReturn
    /\ squeries = <<>>
    /\ vpath = NonePath
    /\ vret = FALSE
    /\ uiret = <<>>
    /\ processor = None
    /\ built = 0
    /\ handler = <<>>
    /\ bulk = NoBulk
    /\ tagarg \in [response : Responses, max_tags : MaxTagsArgs]
    /\ tagret = <<>>
    /\ ccret = <<>>
    /\ rt = <<>>
    /\ MoreInit
    /\ NoDisk

NextTags == GenerateTags

SpecTags == InitTags /\ [][NextTags]_vars

(***************************************************************************)
(* QdrantManager.upsert_image followed by search_similar_images, on a      *)
(* collection that holds the records of earlier runs on the same image     *)
(***************************************************************************)

\* the order between two points the server ranks: the better score first,
\* equal scores by point id
RanksBefore(p, r, query) ==
    \/ Score(p.vector, query) > Score(r.vector, query)
    \/ Score(p.vector, query) = Score(r.vector, query) /\ p.id[2] <= r.id[2]

RECURSIVE RankedById(_, _)
RankedById(points, query) ==
    IF points = {} THEN <<>>
    ELSE LET first == CHOOSE p \in points : \A r \in points : RanksBefore(p, r, query)
         IN  << first >> \o RankedById(points \ {first}, query)

InsertAt(seq, pos, x) == SubSeq(seq, 1, pos - 1) \o << x >> \o SubSeq(seq, pos, Len(seq))

\* Rankings of a collection too large to go through every order: the server
\* ranks points of equal score by id, but for one point, which it may place
\* anywhere among its equals.  For up to two points these are all rankings.
RankingsByIdButOne(points, query) ==
    LET base == RankedById(points, query)
    IN  {base} \cup
        {q \in {InsertAt(SelectSeq(base, LAMBDA y : y # p), pos, p) :
                   p \in points, pos \in 1..Cardinality(points)} :
            \A i \in 1..(Len(q) - 1) :
                Score(q[i].vector, query) >= Score(q[i + 1].vector, query)}

\* the most records earlier runs have left in the collection
MaxStored == 10

\* what an earlier run on the image stored
StoredCopy == [ai_tags |-> << Snow >>, embedding |-> Vec(VectorSize, 0)]

\* the embeddings upsert_image is given: of that image, of another image
RoundTripEmbeddings == { Vec(VectorSize, 0), Vec(VectorSize, 1) }

\* upsert_image(image_data, e)
RtUpsert(e) ==
    /\ pc = "idle"
    /\ uuid' = uuid + 2
    /\ \E failAt \in 1..(Len(get_distance_metrics) + 1) :
          LET image_data == [image_id |-> Uuid(uuid + 1), ai_tags |-> << Berg >>,
                             embedding |-> e]
              up == upsert_image(collections, image_data, e, Uuid(uuid + 2), failAt)
          IN  /\ collections' = up.collections
              /\ rt' = [image_data |-> image_data, embedding |-> e,
                        success |-> up.success, results |-> <<>>, error |-> None]
    /\ pc' = "upserted"
    /\ UNCHANGED <<ALLOWED_PATHS, collections_created, run, trace, ret, written,
                   calls, sarg, sret, squeries, vpath, vret, uiret, processor,
                   built, handler, bulk, tagarg, tagret, ccret, More>>

\* search_similar_images(e): limit = 10, distance_metric = "cosine"
RtSearch ==
    /\ pc = "upserted"
    /\ \E serverUp \in BOOLEAN,
          ranking \in RankingsByIdButOne(collections["cosine"].points, rt.embedding) :
          LET found == search_similar_images(collections, rt.embedding, 10, "cosine",
                                             serverUp, ranking)
          IN  rt' = [rt EXCEPT !.results = found.results, !.error = found.error]
    /\ pc' = "rt_searched"
    /\ UNCHANGED <<ALLOWED_PATHS, collections, collections_created, uuid, run, trace,
                   ret, written, calls, sarg, sret, squeries, vpath, vret, uiret,
                   processor, built, handler, bulk, tagarg, tagret, ccret, More>>

InitRoundTrip ==
    /\ ALLOWED_PATHS = get_allowed_paths(<<>>)
    /\ \E n \in 0..MaxStored :
          LET made == create_collections(NoCollections, FALSE,
                                         Len(get_distance_metrics) + 1)
          IN  /\ collections = Seeded(made.collections, [k \in 1..n |-> StoredCopy], 0)
              /\ collections_created = made.collections_created
              /\ uuid = 2 * n
    /\ pc = "idle"
    /\ run = NoRun
    /\ trace = <<>>
    /\ ret = NoReturn
    /\ written = NothingWritten
    /\ calls = 0
    /\ sarg = <<>>
    /\ sret = NoReturn
    /\ squeries = <<>>
    /\ vpath = NonePath
    /\ vret = FALSE
    /\ AuxInit

NextRoundTrip ==
    \/ \E e \in RoundTripEmbeddings : RtUpsert(e)
    \/ RtSearch

SpecRoundTrip == InitRoundTrip /\ [][NextRoundTrip]_vars

(***************************************************************************)
(* utils.get_gps_coordinates called on files with any GPS tags             *)
(***************************************************************************)

\* the largest numerator of the seconds, which are counted in halves
MaxSeconds == 3

\* GPSLatitude / GPSLongitude values: too few rationals, or degrees, minutes
\* and seconds, a rational with denominator 0 among them
GpsValues ==
    { << Ratio(48, 1), Ratio(8, 1) >> } \cup
    { << Ratio(d, 1), Ratio(8, 1), Ratio(s, den) >> :
         d \in {0, 48}, s \in 0..MaxSeconds, den \in {0, 2} }

\* what exifread.process_file finds in a file
ExifFiles ==
    [ readable : BOOLEAN,
      lat      : {None} \cup GpsValues,
      lat_ref  : {None, <<"N">>, <<"S">>},
      lon      : {None} \cup { v \in GpsValues : Len(v) = 2 \/ v[3].num = MaxSeconds },
      lon_ref  : {None, <<"E">>, <<"W">>} ]

GetGpsCoordinates(exif) ==
    /\ pc = "idle"
    /\ gps' = [exif |-> exif, ret |-> get_gps_coordinates(exif)]
    /\ pc' = "gps_read"
    /\ UNCHANGED <<ALLOWED_PATHS, collections, collections_created, uuid, run, trace,
                   ret, written, calls, sarg, sret, squeries, vpath, vret, uiret,
                   processor, built, handler, bulk, tagarg, tagret, ccret, rt, idop,
                   disk, bypath, apret>>

InitGps == InitBulk

NextGps == \E exif \in ExifFiles : GetGpsCoordinates(exif)

SpecGps == InitGps /\ [][NextGps]_vars

(***************************************************************************)
(* QdrantManager.get_image_by_id and delete_image after the pipeline       *)
(***************************************************************************)

\* QdrantManager.get_image_by_id: client.retrieve(ids=[image_id]) selects the
\* points whose point id is image_id
get_image_by_id(colls, image_id, distance_metric, serverUp) ==
    IF ~serverUp \/ ~colls[distance_metric].exists
    THEN [result |-> <<>>, error |-> Text("Failed to retrieve image")]
    ELSE LET result == {p \in colls[distance_metric].points : p.id = image_id}
         IN  IF result # {}
             THEN LET first == CHOOSE p \in result : TRUE
                  IN  [result |-> [id |-> first.id, payload |-> first.payload,
                                   vector |-> first.vector],
                       error |-> None]
             ELSE [result |-> <<>>, error |-> Text("Image not found")]

\* the filter of delete_image: FieldCondition(key="image_id", match=image_id)
deletes(p, image_id) == p.payload.image_id = image_id

\* QdrantManager.delete_image: [collections, success, error]; the connection
\* drops at the failAt-th client.delete
delete_image(colls, image_id, failAt) ==
    LET bad == {i \in 1..Len(get_distance_metrics) :
                   i = failAt \/ ~colls[get_distance_metrics[i]].exists}
        stop == IF bad = {} THEN Len(get_distance_metrics) + 1
                ELSE CHOOSE i \in bad : \A j \in bad : i <= j
    IN  [ collections |->
              [m \in Metrics |->
                  IF MetricIndex(m) < stop
                  THEN [colls[m] EXCEPT !.points = {p \in @ : ~deletes(p, image_id)}]
                  ELSE colls[m]],
          success |-> stop > Len(get_distance_metrics),
          error   |-> IF stop > Len(get_distance_metrics) THEN None
                      ELSE Text("Failed to delete image") ]

\* the identifiers drawn so far: image ids and point ids
KnownIds == {Uuid(n) : n \in 1..uuid}

IdFrame ==
    UNCHANGED <<ALLOWED_PATHS, collections_created, uuid, run, trace, ret, written,
                calls, sarg, sret, squeries, vpath, vret, uiret, processor, built,
                handler, bulk, tagarg, tagret, ccret, rt, gps, disk, bypath, apret>>

GetImageById(image_id, distance_metric) ==
    /\ pc = "done"
    /\ \E serverUp \in BOOLEAN :
          idop' = [op |-> "get_image_by_id", image_id |-> image_id,
                   ret |-> get_image_by_id(collections, image_id, distance_metric,
                                           serverUp)]
    /\ pc' = "got"
    /\ UNCHANGED collections
    /\ IdFrame

DeleteImage(image_id) ==
    /\ pc = "done"
    /\ \E failAt \in 1..(Len(get_distance_metrics) + 1) :
          LET out == delete_image(collections, image_id, failAt)
          IN  /\ collections' = out.collections
              /\ idop' = [op |-> "delete_image", image_id |-> image_id,
                          ret |-> [success |-> out.success, error |-> out.error]]
    /\ pc' = "deleted"
    /\ IdFrame

\* The files of these runs exist, are sound and carry no GPS tags; the models
\* answer; the store may fail.
IdEnvironment ==
    /\ run'.failed \in {"none", "upsert"}
    /\ run'.gps_coords = None
    /\ run'.metadata \in {"none", "ok"}
    /\ run'.ai_analysis # <<>> => run'.ai_analysis.tags # <<>>
    /\ run'.clip_features # <<>> => run'.clip_features.embedding_dim = VectorSize

InitIds == InitBulk

NextIds ==
    \/ \E p \in PipelinePaths : Call(p)
    \/ PathCheck /\ IdEnvironment
    \/ ExistsCheck /\ IdEnvironment
    \/ ExtensionCheck /\ IdEnvironment
    \/ ImageRead /\ IdEnvironment
    \/ GpsExtract /\ IdEnvironment
    \/ Analysis /\ IdEnvironment
    \/ Embedding /\ IdEnvironment
    \/ Upsert /\ IdEnvironment
    \/ MetadataWrite /\ IdEnvironment
    \/ \E image_id \in KnownIds, distance_metric \in Metrics :
          GetImageById(image_id, distance_metric)
    \/ \E image_id \in KnownIds : DeleteImage(image_id)

SpecIds == InitIds /\ [][NextIds]_vars

(***************************************************************************)
(* ImageProcessor.get_image_by_path and process_single_image on a disk     *)
(* whose files are known                                                   *)
(***************************************************************************)

\* A lookup that asks the file system before it asks the allow-list.
get_image_by_path_exists_first(allowedPaths, image_path, exists) ==
    IF image_path.none
    THEN [ret |-> [result |-> None, error |-> Text("Error getting image")],
          accesses |-> <<>>]
    ELSE IF ~exists
    THEN [ret |-> [result |-> None, error |-> Text("File not found")],
          accesses |-> << "os.path.exists" >>]
    ELSE IF ~validate_file_path(allowedPaths, image_path)
    THEN [ret |-> [result |-> None, error |-> Text("File path not allowed")],
          accesses |-> << "os.path.exists" >>]
    ELSE [ret |-> [result |-> None, error |-> Text("Image lookup not implemented")],
          accesses |-> << "os.path.exists", "list_collections" >>]

\* ImageProcessor.get_image_by_path: [ret, accesses], accesses being the
\* calls it made to the file system and the store; exists: a file is there
get_image_by_path(allowedPaths, image_path, exists) ==
    IF image_path.none
    THEN [ret |-> [result |-> None, error |-> Text("Error getting image")],
          accesses |-> <<>>]
    ELSE IF ~validate_file_path(allowedPaths, image_path)
    THEN [ret |-> [result |-> None, error |-> Text("File path not allowed")],
          accesses |-> <<>>]
    ELSE IF ~exists
    THEN [ret |-> [result |-> None, error |-> Text("File not found")],
          accesses |-> << "os.path.exists" >>]
    ELSE [ret |-> [result |-> None, error |-> Text("Image lookup not implemented")],
          accesses |-> << "os.path.exists", "list_collections" >>]

GetImageByPath(image_path) ==
    /\ pc \in {"idle", "done"}
    /\ LET out == get_image_by_path(ALLOWED_PATHS, image_path, image_path \in disk)
       IN  bypath' = [image_path |-> image_path, ret |-> out.ret,
                      accesses |-> out.accesses]
    /\ pc' = "looked_up"
    /\ UNCHANGED <<ALLOWED_PATHS, collections, collections_created, uuid, run, trace,
                   ret, written, calls, sarg, sret, squeries, vpath, vret, uiret,
                   processor, built, handler, bulk, tagarg, tagret, ccret, rt, gps,
                   idop, disk, apret>>

\* the files there may be
DiskPaths == { Str(TRUE, <<"data", "x", "y.jpg">>), Str(TRUE, <<"etc", "passwd">>),
               Str(FALSE, <<"g.gif">>) }

\* os.path.exists answers by the disk; the files are sound and carry no GPS
\* tags, the models and the store answer
DiskEnvironment ==
    /\ run'.failed = "exists_check" <=> (pc = "exists" /\ run.image_path \notin disk)
    /\ run'.failed \in {"none", "path_check", "exists_check", "extension_check"}
    /\ run'.gps_coords = None
    /\ run'.metadata \in {"none", "ok"}
    /\ run'.ai_analysis # <<>> => run'.ai_analysis.tags # <<>>
    /\ run'.clip_features # <<>> => run'.clip_features.embedding_dim = VectorSize

\* an ImageProcessor on a machine where some of `files` exist
ProcessorOnDisk(files) ==
    /\ ALLOWED_PATHS \in {get_allowed_paths(<<>>), AllowedData}
    /\ LET made == create_collections(NoCollections, FALSE,
                                      Len(get_distance_metrics) + 1)
       IN  /\ collections = made.collections
           /\ collections_created = made.collections_created
    /\ uuid = 0
    /\ pc = "idle"
    /\ run = NoRun
    /\ trace = <<>>
    /\ ret = NoReturn
    /\ written = NothingWritten
    /\ calls = 0
    /\ sarg = <<>>
    /\ sret = NoReturn
    /\ squeries = <<>>
    /\ vpath = NonePath
    /\ vret = FALSE
    /\ uiret = <<>>
    /\ processor = None
    /\ built = 0
    /\ handler = <<>>
    /\ bulk = NoBulk
    /\ tagarg = <<>>
    /\ tagret = <<>>
    /\ ccret = <<>>
    /\ rt = <<>>
    /\ MoreInit
    /\ disk \in SUBSET files

InitDisk == ProcessorOnDisk(DiskPaths)

NextDisk ==
    \/ \E p \in PipelinePaths : Call(p)
    \/ PathCheck /\ DiskEnvironment
    \/ ExistsCheck /\ DiskEnvironment
    \/ ExtensionCheck /\ DiskEnvironment
    \/ ImageRead /\ DiskEnvironment
    \/ GpsExtract /\ DiskEnvironment
    \/ Analysis /\ DiskEnvironment
    \/ Embedding /\ DiskEnvironment
    \/ Upsert /\ DiskEnvironment
    \/ MetadataWrite /\ DiskEnvironment
    \/ \E p \in PipelinePaths : GetImageByPath(p)

SpecDisk == InitDisk /\ [][NextDisk]_vars

(***************************************************************************)
(* app.set_allowed_paths_interface                                         *)
(* The text of the box is a sequence of tokens: a blank, a line break, or  *)
(* a word, which stands for the characters of one path.                    *)
(***************************************************************************)

\* the path a word spells
WordPath(word) ==
    CASE word = "/data" -> Str(TRUE, <<"data">>)
      [] word = "/etc"  -> Str(TRUE, <<"etc">>)
      [] OTHER          -> Str(FALSE, <<"x">>)

Words == {"/data", "/etc", "x"}

\* [path.strip() for path in paths_text.split("\n") if path.strip()]
stripped_lines(paths_text) ==
    LET lines == Split(paths_text, "\n")
        kept  == SelectSeq(lines, LAMBDA line : Strip(line) # <<>>)
    IN  [i \in 1..Len(kept) |-> WordPath(Strip(kept[i])[1])]

\* the first path that does not exist, Len + 1 when all exist
FirstMissing(paths, files) ==
    LET missing == {i \in 1..Len(paths) : paths[i] \notin files}
    IN  IF missing = {} THEN Len(paths) + 1
        ELSE CHOOSE i \in missing : \A j \in missing : i <= j

\* A handler that allows the paths that exist and skips the others.
set_allowed_paths_interface_skips_missing(allowedPaths, paths_text, files) ==
    LET paths == stripped_lines(paths_text)
        valid_paths == SelectSeq(paths, LAMBDA p : p \in files)
    IN  IF Strip(paths_text) = <<>>
        THEN [ALLOWED_PATHS |-> allowedPaths,
              message |-> [kind |-> "Please enter at least one path", paths |-> <<>>]]
        ELSE [ALLOWED_PATHS |-> valid_paths,
              message |-> [kind |-> "Successfully set", paths |-> valid_paths]]

\* set_allowed_paths_interface: [ALLOWED_PATHS, message]; files: the paths
\* os.path.exists finds
set_allowed_paths_interface(allowedPaths, paths_text, files) ==
    LET paths == stripped_lines(paths_text)
        stop  == FirstMissing(paths, files)
    IN  IF Strip(paths_text) = <<>>
        THEN [ALLOWED_PATHS |-> allowedPaths,
              message |-> [kind |-> "Please enter at least one path", paths |-> <<>>]]
        ELSE IF stop <= Len(paths)
        THEN [ALLOWED_PATHS |-> allowedPaths,
              message |-> [kind |-> "Path does not exist", paths |-> << paths[stop] >>]]
        ELSE [ALLOWED_PATHS |-> paths,
              message |-> [kind |-> "Successfully set", paths |-> paths]]

\* the most tokens typed into the box
MaxTokens == 3

\* the texts typed: no line holds two words
PathsTexts ==
    { text \in UNION {[1..n -> Words \cup {" ", "\n"}] : n \in 0..MaxTokens} :
         \A i \in 1..Len(Split(text, "\n")) : Len(Strip(Split(text, "\n")[i])) <= 1 }

SetAllowedPaths(paths_text) ==
    /\ pc = "idle"
    /\ LET out == set_allowed_paths_interface(ALLOWED_PATHS, paths_text, disk)
       IN  /\ ALLOWED_PATHS' = out.ALLOWED_PATHS
           /\ apret' = [paths_text |-> paths_text, message |-> out.message]
    /\ pc' = "paths_set"
    /\ UNCHANGED <<collections, collections_created, uuid, run, trace, ret, written,
                   calls, sarg, sret, squeries, vpath, vret, uiret, processor, built,
                   handler, bulk, tagarg, tagret, ccret, rt, gps, idop, disk, bypath>>

\* the directories there may be
AllowDirs == {WordPath(word) : word \in Words}

InitAllow == ProcessorOnDisk(AllowDirs)

NextAllow ==
    \/ \E paths_text \in PathsTexts : SetAllowedPaths(paths_text)
    \/ \E p \in PipelinePaths : ValidateFilePath(p)

SpecAllow == InitAllow /\ [][NextAllow]_vars

(***************************************************************************)
(* The three operations of one ImageProcessor: process_single_image,       *)
(* process_bulk_images and search_images                                   *)
(***************************************************************************)

\* the files a bulk run goes through are those of BulkEnvironment
ProcessorEnvironment == bulk.pc = "wait" => BulkEnvironment

InitProcessor == InitBulk

NextProcessor ==
    \/ \E p \in PipelinePaths : Call(p) /\ bulk.pc = "idle"
    \/ \E directory_path \in BulkDirectories, max_images \in MaxImages :
          BulkStart(directory_path, max_images)
    \/ BulkCall
    \/ BulkCollect
    \/ PathCheck /\ ProcessorEnvironment
    \/ ExistsCheck /\ ProcessorEnvironment
    \/ ExtensionCheck /\ ProcessorEnvironment
    \/ ImageRead /\ ProcessorEnvironment
    \/ GpsExtract /\ ProcessorEnvironment
    \/ Geocode /\ ProcessorEnvironment
    \/ Analysis /\ ProcessorEnvironment
    \/ Embedding /\ ProcessorEnvironment
    \/ Upsert /\ ProcessorEnvironment
    \/ MetadataWrite /\ ProcessorEnvironment
    \/ \E qe \in QueryEmbeddings, text \in TextQueries, tags \in TagArgs,
          limit \in Limits :
          SearchImages(qe, text, tags, limit) /\ bulk.pc = "idle"

SpecProcessor == InitProcessor /\ [][NextProcessor]_vars

(***************************************************************************)
(* Properties of process_single_image                                      *)
(***************************************************************************)

StageOrder ==
    << "path_check", "exists_check", "extension_check", "image_read", "gps",
       "geocode", "analysis", "embedding", "upsert", "metadata" >>

StageRank(stage) == CHOOSE i \in 1..Len(StageOrder) : StageOrder[i] = stage

Returned == pc = "done"

Succeeded == Returned /\ ret.error = None

\* the points the call in progress has stored in collection m
StoredByRun(m) ==
    IF "image_id" \notin DOMAIN run.image_data THEN {}
    ELSE {p \in collections[m].points :
             p.payload.image_id = run.image_data.image_id}

\* C1: the stages of a call are invoked in the one fixed order (geocoding only
\* when coordinates were found), and a call whose fatal stage failed has
\* returned with that stage as the last one invoked.
C1_StagesInOrderAbortOnFailure ==
    /\ \A i \in 1..Len(trace) :
          IF i = 1 THEN trace[i] = "path_check"
          ELSE \/ StageRank(trace[i]) = StageRank(trace[i - 1]) + 1
               \/ trace[i - 1] = "gps" /\ trace[i] = "analysis"
    /\ run.failed # "none" =>
          /\ Returned
          /\ trace[Len(trace)] = run.failed
          /\ run.failed \notin {"gps", "geocode", "metadata"}

C1_Witness ==
    /\ Returned
    /\ run.failed = "analysis"
    /\ trace = SubSeq(StageOrder, 1, 7)

\* the error a failed stage is reported with
StageError(stage) ==
    CASE stage = "path_check"      -> Text("File path not allowed")
      [] stage = "exists_check"    -> Text("File not found")
      [] stage = "extension_check" -> Text("Unsupported image format")
      [] stage = "image_read"      -> Text("Failed to read image")
      [] stage = "analysis"        -> Text("AI analysis failed")
      [] stage = "embedding"       -> Text("CLIP processing failed")
      [] stage = "upsert"          -> Text("Database storage failed")
      [] OTHER                     -> Text("no such stage error")

SuccessOutcome ==
    /\ run.failed = "none"
    /\ ret.error = None
    /\ DOMAIN ret.result = {"success", "image_data", "message"}
    /\ ret.result.success
    /\ "image_id" \in DOMAIN run.image_data
    /\ ret.result.image_data = run.image_data

FailureOutcome(errors) ==
    /\ run.failed # "none"
    /\ ret.error # None
    /\ DOMAIN ret.result = {"error"}
    /\ ret.result.error \in errors

\* C2 as stated: every returned call is either a success (success = true, the
\* image record, a null error) or a failure reporting the named error of the
\* stage that failed with a non-null message, never both.
C2_Original ==
    Returned =>
        /\ SuccessOutcome \/ FailureOutcome({StageError(run.failed)})
        /\ ~(SuccessOutcome /\ FailureOutcome({StageError(run.failed)}))

\* C2 as amended: a failure reports the named error of the stage that failed
\* or the generic "Processing failed" of the outer exception handler.
C2_OutcomeIsSuccessOrOneError ==
    Returned =>
        LET errors == {StageError(run.failed), Text("Processing failed")}
        IN  /\ SuccessOutcome \/ FailureOutcome(errors)
            /\ ~(SuccessOutcome /\ FailureOutcome(errors))

C2_Witness ==
    /\ Returned
    /\ run.failed = "upsert"
    /\ ret.result.error = Text("Database storage failed")
    /\ ret.error = Text("Failed to upsert image")

\* C3: a GPS stage that yields no coordinates, or a geocoder that yields no
\* location, never fails the call; the call goes on to the analysis, and the
\* record it stores holds None for the coordinates, respectively the
\* location, that were not obtained.
C3_GpsIsBestEffort ==
    /\ run.failed \notin {"gps", "geocode"}
    /\ (Len(trace) > 0 /\ trace[Len(trace)] = "gps" /\ run.gps_coords = None)
           => pc = "analysis"
    /\ (Len(trace) > 0 /\ trace[Len(trace)] = "geocode") => pc = "analysis"
    /\ \A m \in Metrics : \A p \in StoredByRun(m) :
          /\ run.gps_coords = None =>
                p.payload.gps_coordinates = None /\ p.payload.location_name = None
          /\ run.location_name = None => p.payload.location_name = None

C3_Witness ==
    /\ Succeeded
    /\ run.gps_coords = None
    /\ \A m \in Metrics : \E p \in StoredByRun(m) :
          p.payload.gps_coordinates = None /\ p.payload.location_name = None

\* C4 as stated: all collections hold the same records, after a failed
\* upsert_image as well as after a successful one.
C4_Original ==
    \A m1, m2 \in Metrics : collections[m1].points = collections[m2].points

\* s occurs in text
Occurs(s, text) ==
    \E from \in 1..(Len(text) - Len(s) + 1) :
        SubSeq(text, from, from + Len(s) - 1) = s

\* C5 as stated: the text a successful call wrote into the image file
\* contains every generated tag and the generated description.
C5_Original ==
    (Succeeded /\ written.field # "none") =>
        /\ \A i \in 1..Len(run.image_data.ai_tags) :
              \E item \in written.items : Occurs(run.image_data.ai_tags[i], item)
        /\ \E item \in written.items :
              Occurs(run.image_data.ai_description, item)

\* C6: once the metadata stage has run, whatever it did, the call has
\* returned success with a null error and its record is in every collection.
C6_MetadataFailureNotFatal ==
    (Returned /\ run.metadata # "none") =>
        /\ ret.error = None
        /\ "success" \in DOMAIN ret.result /\ ret.result.success
        /\ \A m \in Metrics : StoredByRun(m) # {}

C6_Witness ==
    /\ Returned
    /\ run.metadata = "raise"
    /\ ret.error = None
    /\ \A m \in Metrics : StoredByRun(m) # {}

(***************************************************************************)
(* Properties of validate_file_path                                        *)
(***************************************************************************)

\* the absolute path is an allow-listed root or lies in the tree of one
UnderAllowedRoot(allowedPaths, filepath) ==
    \E i \in 1..Len(get_allowed_paths(allowedPaths)) :
        LET root == abspath(get_allowed_paths(allowedPaths)[i]).segs
            segs == abspath(filepath).segs
        IN  /\ Len(root) <= Len(segs)
            /\ SubSeq(segs, 1, Len(root)) = root

\* C7 as stated: validate_file_path returns true exactly for the paths that
\* are an allow-listed root or lie inside the tree of one.
C7_Original ==
    pc = "validated" => (vret <=> UnderAllowedRoot(ALLOWED_PATHS, vpath))

(***************************************************************************)
(* Properties of search_images (checked under SpecSearch)                  *)
(***************************************************************************)

Searched == pc = "searched"

NoVectorInput ==
    /\ sarg.query_embedding = None \/ VecDim(sarg.query_embedding) = 0
    /\ sarg.text_query = None \/ Len(sarg.text_query) = 0

TagListGiven == sarg.tags.kind = "list"

NonEmptyTagList == TagListGiven /\ Len(sarg.tags.val) > 0

SearchSucceeded == Searched /\ sret.error = None

C9_Original ==
    (Searched /\ NonEmptyTagList
     /\ sarg.query_embedding = None /\ sarg.text_query = None)
        => /\ sret.error = None
           /\ {"total_found", "results"} \subseteq DOMAIN sret.result

\* a stored record carries one of the requested tags, letter case ignored
CarriesRequestedTag(record, requested) ==
    \E i \in DOMAIN requested, j \in DOMAIN record.payload.ai_tags :
        Lower(requested[i]) = Lower(record.payload.ai_tags[j])

\* C10 (as stated): whenever a tag list is supplied, the returned results are
\* exactly the records of the store's ranked answer that carry a requested tag,
\* in the store's order.
C10_Original ==
    (SearchSucceeded /\ TagListGiven)
        => sret.result.results =
               SelectSeq(squeries[1].answer,
                         LAMBDA r : CarriesRequestedTag(r, sarg.tags.val))

\* C10: when a non-empty tag list is supplied, the returned results are exactly
\* the records of the store's ranked answer whose ai_tags contain a requested
\* tag compared case-insensitively, in the order the store ranked them; an
\* empty tag list is no filter, and the store's answer is returned whole.
C10_NonEmptyTagListFilters ==
    /\ (SearchSucceeded /\ NonEmptyTagList)
          => /\ sret.result.results =
                    SelectSeq(squeries[1].answer,
                              LAMBDA r : CarriesRequestedTag(r, sarg.tags.val))
             /\ sret.result.total_found = Len(sret.result.results)
    /\ (SearchSucceeded /\ ~NonEmptyTagList)
          => sret.result.results = squeries[1].answer

C10_Witness ==
    /\ SearchSucceeded
    /\ NonEmptyTagList
    /\ Len(squeries[1].answer) = 2
    /\ squeries[1].answer[1].score > squeries[1].answer[2].score
    /\ sret.result.results = << squeries[1].answer[2] >>
    /\ sarg.tags.val[1] \notin Range(squeries[1].answer[2].payload.ai_tags)

(***************************************************************************)
(* Properties of perform_new_search (checked under SpecSearch)             *)
(***************************************************************************)

\* C11 (as stated): a search request of the UI handler that supplies a query
\* image and no text returns no error and has queried the store once.
C11_Original ==
    (pc = "ui_done" /\ uiret.search_type = "image" /\ ~uiret.query_image.none
     /\ uiret.copied /\ uiret.search_text = <<>>)
        => /\ Len(uiret.ret) = 3
           /\ uiret.ret[3] = None
           /\ Len(squeries) = 1

(***************************************************************************)
(* Properties of process_bulk_images (checked under SpecBulk)              *)
(***************************************************************************)

BulkSummary == bulk.pc = "done" /\ bulk.ret.error = None

Entries == bulk.results.results

CountStatus(entries, status) ==
    Cardinality({k \in DOMAIN entries : entries[k].status = status})

\* the step in which the loop takes the return of a call
Collects == bulk.pc = "wait" /\ bulk'.pc # "wait"

\* C12: a returned summary holds one entry per enumerated file in enumeration
\* order, each entry "success" or "failed"; processed and failed count the
\* entries of each status and add up to total_images; and the entry of a file
\* is taken from the return of that file's own call: "failed" with the call's
\* error message when it returned one, "success" otherwise.
C12_BulkKeepsExactAccounts ==
    /\ [](BulkSummary =>
            /\ Len(Entries) = Len(bulk.image_files)
            /\ \A k \in DOMAIN Entries :
                  /\ Entries[k].image_path = bulk.image_files[k]
                  /\ Entries[k].status \in {"success", "failed"}
            /\ bulk.ret.result = bulk.results
            /\ bulk.results.processed = CountStatus(Entries, "success")
            /\ bulk.results.failed = CountStatus(Entries, "failed")
            /\ bulk.results.processed + bulk.results.failed
                  = bulk.results.total_images
            /\ bulk.results.total_images = Len(bulk.image_files))
    /\ [][Collects =>
            LET entry == bulk'.results.results[bulk.i]
            IN  /\ Len(bulk'.results.results) = bulk.i
                /\ SubSeq(bulk'.results.results, 1, bulk.i - 1) = Entries
                /\ entry.image_path = run.image_path
                /\ ret.error # None =>
                      entry.status = "failed" /\ entry.error = ret.error
                /\ ret.error = None => entry.status = "success"]_vars

\* three valid files and one corrupt file: processed = 3, failed = 1, the
\* corrupt file's entry carrying the read error
C12_Witness ==
    /\ BulkSummary
    /\ bulk.results.total_images = 4
    /\ bulk.results.processed = 3
    /\ bulk.results.failed = 1
    /\ Entries[1].status = "success"
    /\ Entries[2].status = "failed"
    /\ Entries[2].error = Text("Image read error")
    /\ Entries[3].status = "success"

\* C13 (as stated): whenever a max_images is supplied, total_images never
\* exceeds it.
C13_Original ==
    (bulk.pc \in {"loop", "wait", "done"} /\ bulk.max_images # None
     /\ bulk.results # <<>>)
        => bulk.results.total_images <= bulk.max_images[2]

\* C14: the stages of a file run only while the loop waits for that file's
\* call, every earlier file having its entry already; the call of the next
\* file is made only when no call is in progress, and a return is collected
\* only from a call that has returned.
C14_OneFileAtATime ==
    /\ [](/\ pc \notin {"idle", "done"} =>
                /\ bulk.pc = "wait"
                /\ run.image_path = bulk.image_files[bulk.i]
          /\ bulk.pc \in {"loop", "wait"} => Len(Entries) = bulk.i - 1)
    /\ [][/\ (bulk.pc = "loop" /\ bulk'.pc = "wait") => pc \in {"idle", "done"}
          /\ Collects => pc = "done" /\ ret # NoReturn
          /\ trace' # trace =>
                /\ bulk'.i = bulk.i
                /\ bulk'.results = bulk.results]_vars

C14_Witness ==
    /\ bulk.pc = "wait"
    /\ bulk.i = 2
    /\ pc = "analysis"
    /\ Len(Entries) = 1
    /\ Len(bulk.image_files) >= 3

(***************************************************************************)
(* Properties of create_collections (checked under SpecCollections)        *)
(***************************************************************************)

\* C15 (as stated): after create_collections has returned success, every
\* configured metric has its collection, configured with that metric and with
\* vectors of length 512, whatever the server held before.
C15_Original ==
    (pc = "created" /\ ccret.success)
        => \A m \in Metrics :
              /\ collections[m].exists
              /\ collections[m].distance = m
              /\ collections[m].size = VectorSize

(***************************************************************************)
(* Records are added, never replaced (checked under Spec)                  *)
(***************************************************************************)

PointIds(points) == {q.id : q \in points}

ImageIds(points) == {q.payload.image_id : q \in points}

RecordsOf(m, path) == {q \in collections[m].points : q.payload.file_path = path}

FailurePair(out, successKeys) ==
    /\ out.error # None
    /\ "error" \in DOMAIN out.result
    /\ successKeys \cap DOMAIN out.result = {}

\* a (result, error) pair of a success: no message, the result complete
SuccessPair(out, successKeys) ==
    /\ out.error = None
    /\ successKeys \subseteq DOMAIN out.result
    /\ "error" \notin DOMAIN out.result

ReturnsPair(out, successKeys) ==
    /\ DOMAIN out = {"result", "error"}
    /\ FailurePair(out, successKeys) \/ SuccessPair(out, successKeys)

\* C17: whatever the input and whatever fails underneath, each of
\* process_single_image, process_bulk_images and search_images ends by
\* returning a (result, error) pair, and the error is non-null whenever the
\* result is not that of a success.
C17_OperationsReturnPairs ==
    /\ pc = "done" => ReturnsPair(ret, {"success", "image_data"})
    /\ bulk.pc = "done" =>
          ReturnsPair(bulk.ret, {"total_images", "processed", "failed", "results"})
    /\ pc = "searched" => ReturnsPair(sret, {"results", "total_found"})

\* an exception raised inside search_images (the truth test of a numpy array)
\* comes back as a pair
C17_Witness ==
    /\ pc = "searched"
    /\ TruthTestRaises(sarg.query_embedding)
    /\ sret.result = [error |-> Text("Search failed")]
    /\ sret.error # None

(***************************************************************************)
(* Properties of initialize_processor (checked under SpecSingleton)        *)
(***************************************************************************)

\* C18 (as stated): however the handler invocations interleave, at most one
\* ImageProcessor is ever constructed and every call of initialize_processor
\* that returned has returned that one instance.
C18_Original ==
    /\ built <= 1
    /\ \A t \in Threads : handler[t].got \in {None, Instance(1)}

(***************************************************************************)
(* Properties of generate_tags (checked under SpecTags)                    *)
(***************************************************************************)

UpperCaseLetters == {"J", "P", "G", "S", "N"}

\* C19: every tag generate_tags returns, from a JSON array as from free text,
\* has no upper-case letter, neither starts nor ends with whitespace and is
\* longer than one character, and no more than max_tags tags are returned.
C19_TagsAreNormalised ==
    pc = "tagged" =>
        /\ Len(tagret.tags) <= tagarg.max_tags
        /\ \A k \in DOMAIN tagret.tags :
              LET tag == tagret.tags[k]
              IN  /\ Len(tag) > 1
                  /\ \A i \in DOMAIN tag : tag[i] \notin UpperCaseLetters
                  /\ tag[1] \notin Whitespace
                  /\ tag[Len(tag)] \notin Whitespace

\* a JSON array whose second item comes back stripped and lower-cased, the
\* first being too short
C19_Witness ==
    /\ pc = "tagged"
    /\ tagarg.response.kind = "json"
    /\ tagarg.response.value = JsonList(<< JsonStr(<<"a">>),
                                           JsonStr(<<" ", "a", "S", " ">>) >>)
    /\ tagret.tags = << <<"a", "s">> >>

(***************************************************************************)
(* Round trip through the store (checked under SpecRoundTrip)              *)
(***************************************************************************)

RoundTripDone == pc = "rt_searched" /\ rt.success /\ rt.error = None

\* the record comes back: some result carries the payload built from
\* image_data, with the score of a vector compared with itself
ComesBack ==
    \E i \in DOMAIN rt.results :
        /\ rt.results[i].payload = create_payload(rt.image_data)
        /\ rt.results[i].score = 2

\* the stored records, other than the one just upserted, that are as similar
\* to the query as the record itself
Equals ==
    {q \in collections["cosine"].points :
        /\ q.payload.image_id # rt.image_data.image_id
        /\ q.vector = rt.embedding}

\* C20 (as stated): after upsert_image(image_data, e) has returned success,
\* a search_similar_images(e) that succeeds returns a result with the payload
\* built from image_data and the maximum score.
C20_Original == RoundTripDone => ComesBack

\* C20: after upsert_image(image_data, e) has returned success, a
\* search_similar_images(e) that succeeds on the cosine collection returns a
\* result with the payload built from image_data and the maximum score,
\* provided fewer than limit (10) other stored records have that score too;
\* with 10 or more such records the limit can cut the record off.
C20_ComesBackUnlessCutOff ==
    (RoundTripDone /\ Cardinality(Equals) < 10) => ComesBack

\* nine copies of the image are stored already and the tenth comes back
C20_Witness ==
    /\ RoundTripDone
    /\ Cardinality(Equals) = 9
    /\ Len(rt.results) = 10
    /\ ComesBack

(***************************************************************************)
(* An embedding of the wrong length (checked under Spec)                   *)
(***************************************************************************)

\* the call in progress has handed an embedding to upsert_image whose length
\* is not the dimension of the collections
UpsertOfWrongLength ==
    /\ "embedding" \in DOMAIN run.image_data
    /\ \A m \in Metrics :
          collections[m].exists => VecDim(run.image_data.embedding) # collections[m].size

\* C21: an upsert whose embedding length differs from the collections'
\* dimension is rejected: process_single_image has returned "Database storage
\* failed" with the upsert error, and no collection holds a record of that run.
C21_WrongLengthIsRejected ==
    UpsertOfWrongLength =>
        /\ Returned
        /\ run.failed = "upsert"
        /\ ret.result = [error |-> Text("Database storage failed")]
        /\ ret.error = Text("Failed to upsert image")
        /\ \A m \in Metrics : StoredByRun(m) = {}

\* a 768-long embedding met collections of dimension 512
C21_Witness ==
    /\ UpsertOfWrongLength
    /\ \A m \in Metrics : collections[m].exists /\ collections[m].size = VectorSize
    /\ VecDim(run.image_data.embedding) = 768
    /\ Returned
    /\ ret.error = Text("Failed to upsert image")

(***************************************************************************)
(* What a search does to the store (checked under SpecSearch)              *)
(***************************************************************************)

\* the last search_images call got as far as search_similar_images: it
\* returned neither "No query provided" nor the outer handler's error
ReachedStore ==
    /\ pc = "searched"
    /\ sret.error # Text("Please provide either text query or embedding")
    /\ sret.error # Text("Error in search")

\* C22: a search_images call that reaches the store has issued exactly one
\* query, on the cosine collection, and no search changes the records of any
\* collection or the collections_created flag.
C22_OneQueryNoChange ==
    /\ [](ReachedStore => Len(squeries) = 1 /\ squeries[1].collection = "cosine")
    /\ [][pc' = "searched" =>
             /\ collections' = collections
             /\ collections_created' = collections_created]_vars

\* a search found records in a populated store
C22_Witness ==
    /\ ReachedStore
    /\ sret.error = None
    /\ Len(squeries) = 1
    /\ Len(squeries[1].answer) > 0
    /\ collections["cosine"].points # {}

(***************************************************************************)
(* Properties of get_gps_coordinates (checked under SpecGps)               *)
(***************************************************************************)

\* the value of an EXIF rational, in units of 1/unit; the code reads a
\* rational with denominator 0 as its numerator
RationalValue(r, unit) == IF r.den = 0 THEN r.num * unit ELSE (r.num * unit) \div r.den

\* degrees + minutes/60 + seconds/3600, in units of 1/DegreeUnit degree
DecimalDegrees(value) ==
    RationalValue(value[1], DegreeUnit) + RationalValue(value[2], DegreeUnit \div 60)
        + RationalValue(value[3], DegreeUnit \div 3600)

\* all four tags are present and both values have their three rationals
AllFourConvert(exif) ==
    /\ exif.readable
    /\ exif.lat # None /\ exif.lat_ref # None /\ exif.lon # None /\ exif.lon_ref # None
    /\ Len(exif.lat) >= 3 /\ Len(exif.lon) >= 3

\* C23: get_gps_coordinates returns a pair exactly when all four tags are
\* present and both values convert, and None otherwise; the pair holds
\* degrees + minutes/60 + seconds/3600 of each value, the latitude negated
\* exactly when its ref is 'S', the longitude exactly when its ref is 'W'.
C23_GpsPairIsSignedDecimalDegrees ==
    pc = "gps_read" =>
        /\ gps.ret # None <=> AllFourConvert(gps.exif)
        /\ gps.ret # None =>
              /\ gps.ret[1] = IF gps.exif.lat_ref = <<"S">>
                              THEN -DecimalDegrees(gps.exif.lat)
                              ELSE DecimalDegrees(gps.exif.lat)
              /\ gps.ret[2] = IF gps.exif.lon_ref = <<"W">>
                              THEN -DecimalDegrees(gps.exif.lon)
                              ELSE DecimalDegrees(gps.exif.lon)

\* 48 deg 8' 1.5" S, 48 deg 8' 1.5" E
C23_Witness ==
    /\ pc = "gps_read"
    /\ gps.exif.lat_ref = <<"S">>
    /\ gps.exif.lon_ref = <<"E">>
    /\ gps.exif.lat = << Ratio(48, 1), Ratio(8, 1), Ratio(3, 2) >>
    /\ gps.ret # None
    /\ gps.ret[1] = -(48 * 7200 + 8 * 120 + 3)
    /\ gps.ret[2] > 0

(***************************************************************************)
(* The collections_created flag (checked under SpecCollections)            *)
(***************************************************************************)

\* C24 (as stated): in every state of a QdrantManager, after any sequence of
\* create_collections and cleanup_collections calls, those that fail part-way
\* included, collections_created implies that the collection of every
\* configured metric exists.
C24_Original ==
    collections_created => \A m \in Metrics : collections[m].exists

(***************************************************************************)
(* The vectors a search sends to the store (checked under SpecSearch)      *)
(***************************************************************************)

\* the text-embedding step was called and failed
TextEmbeddingFailed ==
    /\ Searched
    /\ sarg.text_embedding # None
    /\ VecDim(sarg.text_embedding) = 0

\* C25: search_images never sends an empty query vector to the store; when
\* a text query is given and get_text_embedding yields an empty vector, the
\* call returns an error and has made no store query.
C25_NoEmptyQueryVector ==
    /\ \A i \in DOMAIN squeries : VecDim(squeries[i].query) > 0
    /\ TextEmbeddingFailed => sret.error # None /\ squeries = <<>>

\* a text search on a populated store whose text embedding came back empty
C25_Witness ==
    /\ TextEmbeddingFailed
    /\ Len(sarg.text_query) > 0
    /\ collections["cosine"].points # {}
    /\ sret.error = Text("Please provide either text query or embedding")
    /\ squeries = <<>>

(***************************************************************************)
(* The dimension of the query vectors (checked under SpecSearch)           *)
(***************************************************************************)

\* the query vector of the last call was derived from its text query, or is
\* an image embedding the caller supplied
TextOrImageQuery ==
    /\ Searched
    /\ squeries # <<>>
    /\ sarg.text_embedding # None \/ VecDim(sarg.query_embedding) = VectorSize

\* C26 (as stated): every query vector search_images passes to the store has
\* the dimension the collections were created with (512), the vectors derived
\* from a text query as well as the image embeddings callers supply.
C26_Original ==
    TextOrImageQuery => VecDim(squeries[1].query) = VectorSize

(***************************************************************************)
(* The identifier a run reports (checked under SpecIds)                    *)
(***************************************************************************)

\* the last process_single_image call succeeded and reported image_id
Reported(image_id) ==
    /\ ret.error = None
    /\ "image_data" \in DOMAIN ret.result
    /\ ret.result.image_data.image_id = image_id

\* C27 (as stated): after process_single_image has succeeded with
\* image_data.image_id = X, get_image_by_id(X) on a reachable store returns
\* the record that run stored, in whichever collection it is asked for.
C27_Original ==
    (/\ pc = "got"
     /\ Reported(idop.image_id)
     /\ idop.ret.error # Text("Failed to retrieve image"))
        => /\ idop.ret.error = None
           /\ idop.ret.result.payload.image_id = idop.image_id

(***************************************************************************)
(* Paths outside the allow-list (checked under SpecDisk)                   *)
(***************************************************************************)

Disallowed(p) == ~p.none /\ ~validate_file_path(ALLOWED_PATHS, p)

SuppliedPaths(paths_text) ==
    LET words == SelectSeq(paths_text, LAMBDA token : token \in Words)
    IN  [i \in 1..Len(words) |-> WordPath(words[i])]

\* the input is blank or names a path that does not exist
Refused(paths_text) ==
    \/ SuppliedPaths(paths_text) = <<>>
    \/ \E i \in DOMAIN SuppliedPaths(paths_text) : SuppliedPaths(paths_text)[i] \notin disk

\* the path lies under a supplied path, as validate_file_path tests it
AllowedBy(paths, filepath) ==
    \E i \in DOMAIN paths :
        StartsWith(PathChars(abspath(filepath)), PathChars(abspath(paths[i])))

\* C29: set_allowed_paths_interface is all-or-nothing.  A blank input or one
\* naming a path that does not exist leaves the allow-list unchanged and
\* returns an error message; otherwise the allow-list becomes exactly the
\* supplied non-blank paths, in order, and later validate_file_path calls
\* decide by that list.
C29_AllowListAllOrNothing ==
    /\ [][pc' = "paths_set" =>
             IF Refused(apret'.paths_text)
             THEN /\ ALLOWED_PATHS' = ALLOWED_PATHS
                  /\ apret'.message.kind \in {"Please enter at least one path",
                                              "Path does not exist"}
             ELSE /\ ALLOWED_PATHS' = SuppliedPaths(apret'.paths_text)
                  /\ apret'.message.kind = "Successfully set"]_vars
    /\ []((pc = "validated" /\ apret # <<>> /\ ~Refused(apret.paths_text)) =>
             (vret <=> AllowedBy(SuppliedPaths(apret.paths_text), vpath)))

\* /data and /etc were set, and /etc/passwd is allowed by them
C29_Witness ==
    /\ pc = "validated"
    /\ apret # <<>>
    /\ ~Refused(apret.paths_text)
    /\ ALLOWED_PATHS = << Str(TRUE, <<"data">>), Str(TRUE, <<"etc">>) >>
    /\ vpath = Str(TRUE, <<"etc", "passwd">>)
    /\ vret

(***************************************************************************)
(* The temporary copy of the query image (checked under SpecSearch)        *)
(***************************************************************************)

\* C30 (as stated): when perform_new_search has returned, on whichever path,
\* the temporary copy of the query image is gone: no temp_search_* file is
\* left behind.
C30_Original ==
    pc = "ui_done" => uiret.temp_files = {}

====
